---- MODULE Spec2Model ----
(***************************************************************************)
(* Verification model of publer-analytics-report (src/main.go, the later   *)
(* of the two program versions held in that file, lines 673-1452).         *)
(*                                                                         *)
(* A Go string is a sequence of bytes.  A byte is written as a one-        *)
(* character TLA+ string when it is ASCII ("a", " ", "-") and as its two   *)
(* hexadecimal digits when it is part of a multi-byte UTF-8 character      *)
(* ("E2","88","99" is the delimiter U+2219, "C3","A9" is U+00E9).          *)
(***************************************************************************)
EXTENDS Integers, Sequences, FiniteSets, TLC

VARIABLES
    pc,             \* position of main()
    fileNameParts,  \* how the overview file in the directory is named (environment)
    param,          \* os.Args[1] and what os.Stat says of it (environment)
    listing,        \* what os.ReadDir returns for the directory (environment)
    configFile,     \* the state of config.yaml (environment)
    overviewFile,   \* findCSVFiles' first result: the overview file's path, as bytes
    postsFile,      \* ... its second result
    hashtagFile,    \* ... its third result
    overviewDoc,    \* what csv.Reader.Read returns for the overview file
    postsDoc,       \* ... for the post insights file
    hashtagDoc,     \* ... for the hashtag analysis file
    llm,            \* outcome of the two text-generation calls (environment)
    overviewData,   \* *OverviewData returned by readOverviewFile
    postsData,      \* []PostData returned by readPostInsightsFile
    hashtagData,    \* []HashtagData returned by readHashtagAnalysisFile
    reportData,     \* *ReportData built by prepareReportData
    dateResult,     \* (string, error) returned by extractDateFromFilename
    reportFilename, \* (string, error) returned by generateReportFilename
    insights,       \* main's local: the insights text
    nextSteps,      \* main's local: the next steps text
    reportFile,     \* the rendered report written by generateReport
    exit,           \* what ended the process early: log.Fatalf's message, or the
                    \* function that panicked
    store,          \* analytics.db: the committed rows of its tables
    txn,            \* the open transaction of replaceCollection and its working copy
    fault,          \* the storage statement that fails in this run (environment)
    earlier         \* analytics.db as earlier runs left it (environment)

vars == <<pc, fileNameParts, param, listing, configFile, overviewFile, postsFile,
          hashtagFile, overviewDoc, postsDoc, hashtagDoc, llm,
          overviewData, postsData, hashtagData, reportData, dateResult,
          reportFilename, insights, nextSteps, reportFile, exit,
          store, txn, fault, earlier>>

\* what the command line names and what findCSVFiles made of it
discovery == <<param, listing, configFile, postsFile, hashtagFile>>

\* the database and what the environment does to it
persistence == <<store, txn, fault, earlier>>

\* the files, what was read from them and what main made of it
run == <<fileNameParts, overviewFile, overviewDoc, postsDoc, hashtagDoc, llm,
         overviewData, postsData, hashtagData, reportData, dateResult,
         reportFilename, insights, nextSteps, reportFile>>

(***************************************************************************)
(* Bounds of the model.                                                    *)
(***************************************************************************)
MaxRows == 5
MaxTextUnits == 30

(***************************************************************************)
(* Program constants.                                                      *)
(***************************************************************************)
TopN == 5
TruncateLength == 50
PostMinFields == 8
HashtagMinFields == 6
PreambleLines == 4

(***************************************************************************)
(* Byte strings: package strings.                                          *)
(***************************************************************************)
Min(S) == CHOOSE x \in S : \A y \in S : x <= y

Max(S) == CHOOSE x \in S : \A y \in S : x >= y

Delimiter == <<"E2", "88", "99">>

\* unicode.IsSpace, on the bytes of the model's alphabet
IsSpace(b) == b \in {" ", "\t", "\n", "\r"}

\* a continuation byte of a multi-byte UTF-8 character
IsContinuation(b) == b \in {"88", "99", "A9"}

\* utf8.RuneCountInString: the characters of a byte string
RuneCount(s) == Cardinality({i \in 1..Len(s) : ~IsContinuation(s[i])})

HasPrefix(s, prefix) ==
    Len(s) >= Len(prefix) /\ SubSeq(s, 1, Len(prefix)) = prefix

HasSuffix(s, suffix) ==
    Len(s) >= Len(suffix) /\ SubSeq(s, Len(s) - Len(suffix) + 1, Len(s)) = suffix

\* strings.Index, 1-based; 0 when sep does not occur
Index(s, sep) ==
    LET hits == {i \in 1..(Len(s) - Len(sep) + 1) : SubSeq(s, i, i + Len(sep) - 1) = sep}
    IN  IF hits = {} THEN 0 ELSE Min(hits)

Contains(s, sep) == Index(s, sep) # 0

TrimSuffix(s, suffix) ==
    IF HasSuffix(s, suffix) THEN SubSeq(s, 1, Len(s) - Len(suffix)) ELSE s

TrimSpace(s) ==
    LET keep == {i \in 1..Len(s) : ~IsSpace(s[i])}
    IN  IF keep = {} THEN <<>> ELSE SubSeq(s, Min(keep), Max(keep))

RECURSIVE Split(_, _)
Split(s, sep) ==
    LET i == Index(s, sep)
    IN  IF i = 0 THEN <<s>>
        ELSE <<SubSeq(s, 1, i - 1)>> \o Split(SubSeq(s, i + Len(sep), Len(s)), sep)

RECURSIVE Fields(_)
Fields(s) ==
    LET start == {i \in 1..Len(s) : ~IsSpace(s[i])}
    IN  IF start = {} THEN <<>>
        ELSE LET a == Min(start)
                 stop == {i \in a..Len(s) : IsSpace(s[i])}
                 b == IF stop = {} THEN Len(s) + 1 ELSE Min(stop)
             IN  <<SubSeq(s, a, b - 1)>> \o Fields(SubSeq(s, b, Len(s)))

RECURSIVE Join(_, _)
Join(elems, sep) ==
    IF elems = <<>> THEN <<>>
    ELSE IF Len(elems) = 1 THEN elems[1]
    ELSE elems[1] \o sep \o Join(Tail(elems), sep)

RECURSIVE ReplaceAll(_, _, _)
ReplaceAll(s, old, new) ==
    LET i == Index(s, old)
    IN  IF i = 0 THEN s
        ELSE SubSeq(s, 1, i - 1) \o new \o ReplaceAll(SubSeq(s, i + Len(old), Len(s)), old, new)

(***************************************************************************)
(* extractDateFromFilename and its callers.                                *)
(***************************************************************************)
MonthAbbrevs ==
    << <<"J","a","n">>, <<"F","e","b">>, <<"M","a","r">>, <<"A","p","r">>,
       <<"M","a","y">>, <<"J","u","n">>, <<"J","u","l">>, <<"A","u","g">>,
       <<"S","e","p">>, <<"O","c","t">>, <<"N","o","v">>, <<"D","e","c">> >>

MonthNumbers ==
    << <<"0","1">>, <<"0","2">>, <<"0","3">>, <<"0","4">>, <<"0","5">>, <<"0","6">>,
       <<"0","7">>, <<"0","8">>, <<"0","9">>, <<"1","0">>, <<"1","1">>, <<"1","2">> >>

\* monthMap[month]: the value, and ok
monthMap(month) ==
    LET ks == {k \in 1..12 : MonthAbbrevs[k] = month}
    IN  IF ks = {} THEN [ok |-> FALSE, val |-> <<>>]
        ELSE [ok |-> TRUE, val |-> MonthNumbers[CHOOSE k \in ks : TRUE]]

\* faulty variant: the guard lets a name of two segments through
TooFewPartsTwo(parts) == Len(parts) < 2

\* the guard on the number of delimiter segments
TooFewParts(parts) == Len(parts) < 3

\* faulty variant: the period is taken from the end of the range
StartDateFromEnd(dateRange) == TrimSpace(dateRange[Len(dateRange)])

\* the date of the range that is read: the first
StartDate(dateRange) == TrimSpace(dateRange[1])

extractDateFromFilename(filename) ==
    LET parts == Split(filename, Delimiter)
    IN  IF TooFewParts(parts) THEN [val |-> <<>>, err |-> "invalid filename format"]
        ELSE
        LET datePart == TrimSuffix(TrimSpace(parts[Len(parts)]), <<".","c","s","v">>)
            dateRange == Split(datePart, <<"-">>)
        IN  IF Len(dateRange) < 1
            THEN [val |-> <<>>, err |-> "invalid date format in filename"]
            ELSE
            LET startDate == StartDate(dateRange)
                dateComponents == Fields(startDate)
            IN  IF Len(dateComponents) < 3
                THEN [val |-> <<>>, err |-> "invalid start date format"]
                ELSE
                LET month == dateComponents[2]
                    year == dateComponents[3]
                    m == monthMap(month)
                IN  IF ~m.ok THEN [val |-> <<>>, err |-> "invalid month"]
                    ELSE [val |-> year \o <<"-">> \o m.val, err |-> "nil"]

WorkspaceMarker == <<"(","W","o","r","k","s","p","a","c","e",")">>

\* faulty variant: the marker removed, the white space around the rest kept
cleanWorkspaceUntrimmed(workspaceName) == ReplaceAll(workspaceName, WorkspaceMarker, <<>>)

cleanWorkspace(workspaceName) == TrimSpace(ReplaceAll(workspaceName, WorkspaceMarker, <<>>))

\* faulty variant: a name also when no period was extracted
generateReportFilenameLenient(workspaceName, file) ==
    [val |-> cleanWorkspace(workspaceName) \o <<" ">> \o extractDateFromFilename(file).val
                 \o <<".","m","d">>,
     err |-> "nil"]

generateReportFilename(workspaceName, file) ==
    LET d == extractDateFromFilename(file)
    IN  IF d.err # "nil" THEN [val |-> <<>>, err |-> d.err]
        ELSE [val |-> cleanWorkspace(workspaceName) \o <<" ">> \o d.val \o <<".","m","d">>,
              err |-> "nil"]

(***************************************************************************)
(* findCSVFiles: package path/filepath, the classifiers, the two searches. *)
(***************************************************************************)
Slash == "/"

CurrentDir == <<".">>

\* the places of the path separator in a path
Slashes(path) == {i \in 1..Len(path) : path[i] = Slash}

\* filepath.Dir, of a clean path
Dir(path) ==
    IF Slashes(path) = {} THEN CurrentDir
    ELSE IF Max(Slashes(path)) = 1 THEN <<Slash>>
    ELSE SubSeq(path, 1, Max(Slashes(path)) - 1)

\* filepath.Base, of a clean path that does not end in a separator
Base(path) ==
    IF Slashes(path) = {} THEN path
    ELSE SubSeq(path, Max(Slashes(path)) + 1, Len(path))

\* filepath.Join of a clean directory and a file name
JoinPath(dir, name) ==
    IF dir = CurrentDir THEN name
    ELSE IF dir = <<Slash>> THEN dir \o name
    ELSE dir \o <<Slash>> \o name

CsvSuffix == <<".","c","s","v">>

OverviewLabel == <<"O","v","e","r","v","i","e","w">>

PostInsightsLabel == <<"P","o","s","t"," ","I","n","s","i","g","h","t","s">>

HashtagAnalysisLabel == <<"H","a","s","h","t","a","g"," ","A","n","a","l","y","s","i","s">>

isOverviewFile(filename) == Contains(filename, OverviewLabel) /\ HasSuffix(filename, CsvSuffix)

isPostInsightsFile(filename) ==
    Contains(filename, PostInsightsLabel) /\ HasSuffix(filename, CsvSuffix)

isHashtagAnalysisFile(filename) ==
    Contains(filename, HashtagAnalysisLabel) /\ HasSuffix(filename, CsvSuffix)

NotFound == [overview |-> <<>>, posts |-> <<>>, hashtags |-> <<>>]

Failed(err) == [overview |-> <<>>, posts |-> <<>>, hashtags |-> <<>>, err |-> err]

\* the loop over the directory entries: a later file of a kind replaces an earlier one
RECURSIVE classifyLoop(_, _, _)
classifyLoop(dir, files, acc) ==
    IF files = <<>> THEN acc
    ELSE LET file == Head(files)
             fp == JoinPath(dir, file.name)
             next == IF file.isDir THEN acc
                     ELSE IF isOverviewFile(file.name) THEN [acc EXCEPT !.overview = fp]
                     ELSE IF isPostInsightsFile(file.name) THEN [acc EXCEPT !.posts = fp]
                     ELSE IF isHashtagAnalysisFile(file.name) THEN [acc EXCEPT !.hashtags = fp]
                     ELSE acc
         IN  classifyLoop(dir, Tail(files), next)

\* faulty variant: only the overview file is required
OverviewMissing(acc) == acc.overview = <<>>

AnyMissing(acc) == acc.overview = <<>> \/ acc.posts = <<>> \/ acc.hashtags = <<>>

findCSVFilesInDir(dir, readDir) ==
    IF readDir.err # "nil" THEN Failed(readDir.err)
    ELSE LET acc == classifyLoop(dir, readDir.files, NotFound)
         IN  IF AnyMissing(acc) THEN Failed("could not find all required CSV files")
             ELSE [overview |-> acc.overview, posts |-> acc.posts,
                   hashtags |-> acc.hashtags, err |-> "nil"]

findCSVFilesFromFile(filePath, readDir) ==
    LET dir == Dir(filePath)
        base == Base(filePath)
    IN  IF ~(isOverviewFile(base) \/ isPostInsightsFile(base) \/ isHashtagAnalysisFile(base))
        THEN Failed("provided file is not a recognized CSV type")
        ELSE findCSVFilesInDir(dir, readDir)

\* p.stat is what os.Stat finds at p.path; readDir is os.ReadDir of the directory
findCSVFiles(p, readDir) ==
    CASE p.stat = "error" -> Failed("stat")
      [] p.stat = "dir" -> findCSVFilesInDir(p.path, readDir)
      [] OTHER -> findCSVFilesFromFile(p.path, readDir)

\* loadConfig: os.ReadFile, then yaml.Unmarshal
loadConfig(file) == IF file = "ok" THEN "nil" ELSE file

(***************************************************************************)
(* Numbers: fmt.Sscanf with %d and %f, strconv.Atoi.  A scan that fails    *)
(* leaves the destination at its zero value.  A float64 is kept as the     *)
(* exact fraction num/den (den > 0).                                       *)
(***************************************************************************)
Digits == <<"0", "1", "2", "3", "4", "5", "6", "7", "8", "9">>

IsDigit(b) == \E d \in 1..10 : Digits[d] = b

DigitVal(b) == (CHOOSE d \in 1..10 : Digits[d] = b) - 1

RECURSIVE DecimalValue(_)
DecimalValue(ds) ==
    IF ds = <<>> THEN 0
    ELSE 10 * DecimalValue(SubSeq(ds, 1, Len(ds) - 1)) + DigitVal(ds[Len(ds)])

RECURSIVE Pow10(_)
Pow10(n) == IF n = 0 THEN 1 ELSE 10 * Pow10(n - 1)

\* the longest prefix of s made of digits
DigitRun(s) ==
    LET stop == {i \in 1..Len(s) : ~IsDigit(s[i])}
    IN  IF stop = {} THEN s ELSE SubSeq(s, 1, Min(stop) - 1)

SignOf(s) == IF s # <<>> /\ s[1] = "-" THEN -1 ELSE 1

Unsigned(s) == IF s # <<>> /\ s[1] \in {"+", "-"} THEN Tail(s) ELSE s

\* fmt.Sscanf(s, "%d", &x): leading spaces, a sign, then the digits that follow;
\* what comes after the digits is not read
SscanfInt(s) ==
    LET t == IF TrimSpace(s) = <<>> THEN <<>>
             ELSE SubSeq(s, Min({i \in 1..Len(s) : ~IsSpace(s[i])}), Len(s))
        ds == DigitRun(Unsigned(t))
    IN  IF ds = <<>> THEN [ok |-> FALSE, val |-> 0]
        ELSE [ok |-> TRUE, val |-> SignOf(t) * DecimalValue(ds)]

\* strconv.Atoi(s): the whole of s is a sign and digits
Atoi(s) ==
    LET ds == Unsigned(s)
    IN  IF ds = <<>> \/ DigitRun(ds) # ds THEN [ok |-> FALSE, val |-> 0]
        ELSE [ok |-> TRUE, val |-> SignOf(s) * DecimalValue(ds)]

ZeroFloat == [num |-> 0, den |-> 1]

\* fmt.Sscanf(s, "%f", &x): a sign, digits, and a fraction part
SscanfFloat(s) ==
    LET t == IF TrimSpace(s) = <<>> THEN <<>>
             ELSE SubSeq(s, Min({i \in 1..Len(s) : ~IsSpace(s[i])}), Len(s))
        u == Unsigned(t)
        ip == DigitRun(u)
        rest == SubSeq(u, Len(ip) + 1, Len(u))
        fp == IF rest # <<>> /\ rest[1] = "." THEN DigitRun(Tail(rest)) ELSE <<>>
    IN  IF ip = <<>> /\ fp = <<>> THEN [ok |-> FALSE, val |-> ZeroFloat]
        ELSE [ok |-> TRUE,
              val |-> [num |-> SignOf(t) * DecimalValue(ip \o fp), den |-> Pow10(Len(fp))]]

FloatLess(a, b) == a.num * b.den < b.num * a.den

FloatEq(a, b) == a.num * b.den = b.num * a.den

(***************************************************************************)
(* The three readers.  A document is the sequence of what csv.Reader.Read  *)
(* returns before io.EOF: [err |-> "nil", rec |-> fields] for a record,    *)
(* [err |-> "parse", rec |-> <<>>] for a line the reader rejects,          *)
(* [err |-> "read", rec |-> <<>>] for a failure of the underlying file,    *)
(* which every later Read returns again (bufio.Reader hands the error on   *)
(* and asks the file anew).  Go                                            *)
(* slices are indexed from 0, sequences from 1: rec[k] is record[k-1].     *)
(* A result is [status, val]: status "nil" (no error), "err" (an error is  *)
(* returned), "panic" (index out of range: the process ends) or "spin"     *)
(* (the function never returns).                                           *)
(***************************************************************************)
WorkspaceNameLabel == <<"W","o","r","k","s","p","a","c","e"," ","N","a","m","e">>

TopCountriesLabel == <<"T","o","p"," ","C","o","u","n","t","r","i","e","s">>

TopLabel == <<"T","o","p">>

StatusLabel == <<"S","t","a","t","u","s">>

\* the value fmt.Sscanf leaves in an int that was zero
ScanIntField(field) == SscanfInt(TrimSpace(field)).val

ScanFloatField(field) == SscanfFloat(TrimSpace(field)).val

\* faulty variant: the first field is the label, nothing after it
SeekLabelExact(doc, from, label) ==
    LET hits == {i \in from..Len(doc) :
                    \/ doc[i].err # "nil"
                    \/ /\ Len(doc[i].rec) > 0
                       /\ TrimSpace(doc[i].rec[1]) = label}
    IN  IF hits = {} THEN Len(doc) + 1 ELSE Min(hits)

\* first position from `from` on where Read returns an error or a record
\* whose first field starts with label; Len(doc)+1 stands for io.EOF
SeekLabel(doc, from, label) ==
    LET hits == {i \in from..Len(doc) :
                    \/ doc[i].err # "nil"
                    \/ /\ Len(doc[i].rec) > 0
                       /\ HasPrefix(TrimSpace(doc[i].rec[1]), label)}
    IN  IF hits = {} THEN Len(doc) + 1 ELSE Min(hits)

\* faulty variant: a user count that is no integer does not end the list (as the
\* earlier version had it)
CountryStopByNameOnly(item) ==
    \/ item.err # "nil"
    \/ Len(item.rec) < 2
    \/ TrimSpace(item.rec[1]) = <<>>
    \/ HasPrefix(TrimSpace(item.rec[1]), TopLabel)

\* whether the country loop stops at this Read result
CountryStop(item) ==
    \/ item.err # "nil"
    \/ Len(item.rec) < 2
    \/ TrimSpace(item.rec[1]) = <<>>
    \/ HasPrefix(TrimSpace(item.rec[1]), TopLabel)
    \/ TrimSpace(item.rec[2]) = <<>>
    \/ ~Atoi(TrimSpace(item.rec[2])).ok

\* the rows the country loop appends, from position `from` on
CountryRows(doc, from) ==
    LET stops == {i \in from..Len(doc) : CountryStop(doc[i])}
        end == IF stops = {} THEN Len(doc) + 1 ELSE Min(stops)
    IN  [k \in 1..(end - from) |->
            [Country |-> TrimSpace(doc[from + k - 1].rec[1]),
             Users |-> Atoi(TrimSpace(doc[from + k - 1].rec[2])).val,
             Percentage |-> ZeroFloat]]

RECURSIVE SumUsers(_)
SumUsers(cs) == IF cs = <<>> THEN 0 ELSE cs[1].Users + SumUsers(Tail(cs))

\* faulty variant: the share as a fraction of one
FractionOf(users, total) == [num |-> users, den |-> total]

\* float64(Users) * 100.0 / float64(total)
PercentageOf(users, total) == [num |-> users * 100, den |-> total]

WithPercentages(cs) ==
    LET total == SumUsers(cs)
    IN  IF total > 0
        THEN [k \in 1..Len(cs) |->
                 [cs[k] EXCEPT !.Percentage = PercentageOf(cs[k].Users, total)]]
        ELSE cs

OverviewRow(rec, countries) ==
    [WorkspaceName |-> TrimSpace(rec[1]),
     Followers |-> IF Len(rec) > 2 THEN ScanIntField(rec[3]) ELSE 0,
     Reach |-> IF Len(rec) > 3 THEN ScanIntField(rec[4]) ELSE 0,
     ReachRate |-> IF Len(rec) > 4 THEN ScanFloatField(rec[5]) ELSE ZeroFloat,
     Engagements |-> IF Len(rec) > 6 THEN ScanIntField(rec[7]) ELSE 0,
     EngagementRate |-> IF Len(rec) > 7
                        THEN SscanfFloat(TrimSpace(TrimSuffix(rec[8], <<"%">>))).val
                        ELSE ZeroFloat,
     TopCountries |-> countries]

NoOverview == OverviewRow(<< <<>> >>, <<>>)

readOverviewFile(doc) ==
    LET h == SeekLabel(doc, 1, WorkspaceNameLabel)
    IN  IF h > Len(doc) \/ doc[h].err # "nil" THEN [status |-> "err", val |-> NoOverview]
        ELSE IF h + 1 > Len(doc) \/ doc[h + 1].err # "nil"
        THEN [status |-> "err", val |-> NoOverview]
        ELSE IF Len(doc[h + 1].rec) = 0 THEN [status |-> "panic", val |-> NoOverview]
        ELSE
        LET rec == doc[h + 1].rec
            t == SeekLabel(doc, h + 2, TopCountriesLabel)
        IN  IF t > Len(doc) \/ doc[t].err # "nil"
            THEN [status |-> "nil", val |-> OverviewRow(rec, <<>>)]
            ELSE [status |-> "nil",
                  val |-> OverviewRow(rec, WithPercentages(CountryRows(doc, t + 1)))]

\* the post record of a row whose type is Status; the row has more than 8 fields
PostOf(rec) ==
    [PostText |-> TrimSpace(rec[5]),
     PostType |-> TrimSpace(rec[6]),
     Reactions |-> IF rec[9] # <<>> /\ rec[9] # <<"-">> THEN ScanIntField(rec[9]) ELSE 0]

\* whether the loop body appends a record for this row
PostKept(rec) == TrimSpace(rec[6]) = StatusLabel

\* whether the loop body skips this Read result before looking at its fields
PostSkipped(item) == item.err # "nil" \/ Len(item.rec) < PostMinFields

\* the failure of the underlying file that every later Read returns again
ReadFailure == [err |-> "read", rec |-> <<>>]

RECURSIVE postLoop(_, _, _)
postLoop(doc, i, posts) ==
    IF i > Len(doc) THEN [status |-> "nil", val |-> posts]
    ELSE IF doc[i] = ReadFailure THEN [status |-> "spin", val |-> <<>>]
    ELSE IF PostSkipped(doc[i]) THEN postLoop(doc, i + 1, posts)
    ELSE IF ~PostKept(doc[i].rec) THEN postLoop(doc, i + 1, posts)
    ELSE IF Len(doc[i].rec) < 9 THEN [status |-> "panic", val |-> <<>>]
    ELSE postLoop(doc, i + 1, Append(posts, PostOf(doc[i].rec)))

\* whether one of the first n Reads fails (an error or io.EOF)
PreambleFails(doc, n) == Len(doc) < n \/ \E i \in 1..n : doc[i].err # "nil"

readPostInsightsFile(doc) ==
    IF PreambleFails(doc, PreambleLines) THEN [status |-> "err", val |-> <<>>]
    ELSE postLoop(doc, PreambleLines + 1, <<>>)

\* the hashtag record of a row; the row has at least 10 fields
HashtagOf(rec) ==
    [Hashtag |-> TrimSpace(rec[1]),
     Score |-> IF rec[5] # <<>> THEN ScanFloatField(rec[5]) ELSE ZeroFloat,
     Reach |-> IF rec[6] # <<>> THEN ScanIntField(rec[6]) ELSE 0,
     Reactions |-> IF rec[7] # <<>> THEN ScanIntField(rec[7]) ELSE 0,
     Comments |-> IF rec[8] # <<>> THEN ScanIntField(rec[8]) ELSE 0,
     Shares |-> IF rec[9] # <<>> THEN ScanIntField(rec[9]) ELSE 0,
     VideoViews |-> IF rec[10] # <<>> THEN ScanIntField(rec[10]) ELSE 0]

HashtagSkipped(item) == item.err # "nil" \/ Len(item.rec) < HashtagMinFields

RECURSIVE hashtagLoop(_, _, _)
hashtagLoop(doc, i, hashtags) ==
    IF i > Len(doc) THEN [status |-> "nil", val |-> hashtags]
    ELSE IF doc[i] = ReadFailure THEN [status |-> "spin", val |-> <<>>]
    ELSE IF HashtagSkipped(doc[i]) THEN hashtagLoop(doc, i + 1, hashtags)
    ELSE IF Len(doc[i].rec) < 10 THEN [status |-> "panic", val |-> <<>>]
    ELSE hashtagLoop(doc, i + 1, Append(hashtags, HashtagOf(doc[i].rec)))

readHashtagAnalysisFile(doc) ==
    IF PreambleFails(doc, PreambleLines) THEN [status |-> "err", val |-> <<>>]
    ELSE hashtagLoop(doc, PreambleLines + 1, <<>>)

(***************************************************************************)
(* prepareReportData.                                                      *)
(***************************************************************************)
UnknownPeriod == <<"U","n","k","n","o","w","n"," ","P","e","r","i","o","d">>

UnknownMonth == <<"U","n","k","n","o","w","n"," ","M","o","n","t","h">>

MonthNames ==
    << <<"J","a","n","u","a","r","y">>,
       <<"F","e","b","r","u","a","r","y">>,
       <<"M","a","r","c","h">>,
       <<"A","p","r","i","l">>,
       <<"M","a","y">>,
       <<"J","u","n","e">>,
       <<"J","u","l","y">>,
       <<"A","u","g","u","s","t">>,
       <<"S","e","p","t","e","m","b","e","r">>,
       <<"O","c","t","o","b","e","r">>,
       <<"N","o","v","e","m","b","e","r">>,
       <<"D","e","c","e","m","b","e","r">> >>

extractPeriodFromFilename(filename) ==
    LET parts == Split(filename, Delimiter)
    IN  IF Len(parts) < 3 THEN UnknownPeriod
        ELSE TrimSuffix(TrimSpace(parts[Len(parts)]), <<".","c","s","v">>)

extractMonthFromFilename(filename) ==
    LET dateRange == Split(extractPeriodFromFilename(filename), <<"-">>)
    IN  IF Len(dateRange) < 1 THEN UnknownMonth
        ELSE
        LET dateComponents == Fields(TrimSpace(dateRange[1]))
        IN  IF Len(dateComponents) < 3 THEN UnknownMonth
            ELSE
            LET ks == {k \in 1..12 : MonthAbbrevs[k] = dateComponents[2]}
            IN  IF ks = {} THEN UnknownMonth
                ELSE MonthNames[CHOOSE k \in ks : TRUE] \o <<" ">> \o dateComponents[3]

\* faulty variants: ascending order; the reach as the key (as the earlier version had it)
CountryLessAscending(a, b) == a.Users < b.Users

PostLessAscending(a, b) == a.Reactions < b.Reactions

HashtagLessByReach(a, b) == a.Reach > b.Reach

\* the less functions handed to sort.Slice
CountryLess(a, b) == a.Users > b.Users

PostLess(a, b) == a.Reactions > b.Reactions

HashtagLess(a, b) == FloatLess(b.Score, a.Score)

(***************************************************************************)
(* sort.Slice(s, less).  The package documents the sort as "not guaranteed *)
(* to be stable": the result is s rearranged so that no element is less    *)
(* than one placed before it, and elements that are not less than each     *)
(* other come in an order the library chooses.  before is the set of pairs *)
(* <<i, j>> of positions with less(s[i], s[j]); SortOrders is the set of   *)
(* orders of the positions that sort.Slice may produce.                    *)
(***************************************************************************)
RECURSIVE SortOrders(_, _)
SortOrders(idxs, before) ==
    IF idxs = {} THEN {<<>>}
    ELSE UNION {{<<i>> \o rest : rest \in SortOrders(idxs \ {i}, before)} :
                  i \in {i \in idxs : \A j \in idxs : <<j, i>> \notin before}}

Rearranged(s, order) == [k \in 1..Len(s) |-> s[order[k]]]

SortedCountries(s) ==
    {Rearranged(s, o) : o \in SortOrders(1..Len(s),
        {p \in (1..Len(s)) \X (1..Len(s)) : CountryLess(s[p[1]], s[p[2]])})}

SortedPosts(s) ==
    {Rearranged(s, o) : o \in SortOrders(1..Len(s),
        {p \in (1..Len(s)) \X (1..Len(s)) : PostLess(s[p[1]], s[p[2]])})}

SortedHashtags(s) ==
    {Rearranged(s, o) : o \in SortOrders(1..Len(s),
        {p \in (1..Len(s)) \X (1..Len(s)) : HashtagLess(s[p[1]], s[p[2]])})}

\* s[:5] when len(s) > 5, s otherwise
TopOf(s) == IF Len(s) > TopN THEN SubSeq(s, 1, TopN) ELSE s

\* the ReportData built from the slices as sort.Slice left them
\* faulty variant: the change since a month without followers
FollowersSinceNothing(overview) == overview.Followers

\* the change of the followers that prepareReportData reports
FollowersChangeOf(overview) == 0

ReportOf(overview, countries, posts, hashtags, file) ==
    [Month |-> extractMonthFromFilename(file),
     Period |-> extractPeriodFromFilename(file),
     Followers |-> overview.Followers,
     FollowersChange |-> FollowersChangeOf(overview),
     Reach |-> overview.Reach,
     ReachChange |-> ZeroFloat,
     Engagements |-> overview.Engagements,
     EngagementsChange |-> ZeroFloat,
     EngagementRate |-> overview.EngagementRate,
     EngagementRateChange |-> ZeroFloat,
     TopCountries |-> TopOf(countries),
     TopPosts |-> TopOf(posts),
     TopHashtags |-> TopOf(hashtags),
     Insights |-> "",
     NextSteps |-> ""]

\* the three lists of the report, once the slices are sorted
WithTopLists(data, countries, posts, hashtags) ==
    [data EXCEPT !.TopCountries = TopOf(countries),
                 !.TopPosts = TopOf(posts),
                 !.TopHashtags = TopOf(hashtags)]

NoReport == ReportOf(NoOverview, <<>>, <<>>, <<>>, <<>>)

(***************************************************************************)
(* generateReport: the template functions and the rendered report.         *)
(***************************************************************************)
Ellipsis == <<".", ".", ".">>

\* faulty variant: newlines and carriage returns replaced, runs of white space kept
CollapseNewlinesOnly(s) == ReplaceAll(ReplaceAll(s, <<"\n">>, <<" ">>), <<"\r">>, <<" ">>)

\* newlines and carriage returns to spaces, runs of white space to one space
Collapse(s) ==
    Join(Fields(ReplaceAll(ReplaceAll(s, <<"\n">>, <<" ">>), <<"\r">>, <<" ">>)), <<" ">>)

\* the template function "truncate": len and the slice expression count bytes
truncate(s, length) ==
    LET clean == Collapse(s)
    IN  IF Len(clean) <= length THEN clean
        ELSE SubSeq(clean, 1, length) \o Ellipsis

\* printf "%.1f": the number of tenths, the nearest to num/den, ties to even
FormatTenths(x) ==
    LET n == x.num * 10
        q == n \div x.den
        r2 == 2 * (n % x.den)
    IN  IF r2 > x.den \/ (r2 = x.den /\ q % 2 = 1) THEN q + 1 ELSE q

RenderedReport(data, filename) ==
    [Name |-> filename,
     Month |-> data.Month,
     Period |-> data.Period,
     Summary |-> <<data.Followers, data.FollowersChange, data.Reach, data.ReachChange,
                   data.Engagements, data.EngagementsChange, data.EngagementRate,
                   data.EngagementRateChange>>,
     Posts |-> [i \in 1..Len(data.TopPosts) |->
                   [Text |-> truncate(data.TopPosts[i].PostText, TruncateLength),
                    Reactions |-> data.TopPosts[i].Reactions]],
     Hashtags |-> [i \in 1..Len(data.TopHashtags) |->
                   [Hashtag |-> data.TopHashtags[i].Hashtag,
                    Score |-> data.TopHashtags[i].Score]],
     Countries |-> [i \in 1..Len(data.TopCountries) |->
                   [Country |-> data.TopCountries[i].Country,
                    Tenths |-> FormatTenths(data.TopCountries[i].Percentage)]],
     Insights |-> data.Insights,
     NextSteps |-> data.NextSteps]

NoFile == RenderedReport(NoReport, <<>>)

(***************************************************************************)
(* SnapshotStore: the SQLite file analytics.db.  A table is the sequence   *)
(* of its rows; a row of a collection carries its key and its kind.        *)
(***************************************************************************)
EmptyStore == [summaries |-> <<>>, rows |-> <<>>]

NoTxn == [kind |-> 0, open |-> FALSE, rows |-> <<>>]

Kinds == <<"countries", "posts", "hashtags">>

\* the period key of a run
KeyOf(overview, file) ==
    [org |-> overview.WorkspaceName, period |-> extractDateFromFilename(file).val]

\* the overview snapshot of a run
SnapshotOf(key, overview) ==
    [org |-> key.org, period |-> key.period, Followers |-> overview.Followers,
     Reach |-> overview.Reach, ReachRate |-> overview.ReachRate,
     Engagements |-> overview.Engagements, EngagementRate |-> overview.EngagementRate]

\* the places of a key's row in the summary table
SummaryRows(st, org, period) ==
    {i \in 1..Len(st.summaries) :
        st.summaries[i].org = org /\ st.summaries[i].period = period}

\* faulty variant: a plain insert
appendSummary(st, snapshot) == [st EXCEPT !.summaries = Append(@, snapshot)]

\* upsert: overwrite the key's row if there is one, insert otherwise
putSummary(st, snapshot) ==
    LET at == SummaryRows(st, snapshot.org, snapshot.period)
    IN  IF at = {} THEN [st EXCEPT !.summaries = Append(@, snapshot)]
        ELSE [st EXCEPT !.summaries =
                 [i \in 1..Len(@) |-> IF i \in at THEN snapshot ELSE @[i]]]

\* the snapshot of a key, or "not found"
getSummary(st, org, period) ==
    LET at == SummaryRows(st, org, period)
    IN  IF at = {} THEN [found |-> FALSE, val |-> SnapshotOf([org |-> org, period |-> period], NoOverview)]
        ELSE [found |-> TRUE, val |-> st.summaries[Min(at)]]

\* delete all rows of (organization, period, kind)
deleteRows(rows, key, kind) ==
    LET Other(r) == ~(r.org = key.org /\ r.period = key.period /\ r.kind = kind)
    IN  SelectSeq(rows, Other)

\* insert the new set
insertRows(rows, key, kind, records) ==
    rows \o [i \in 1..Len(records) |->
                [org |-> key.org, period |-> key.period, kind |-> kind, rec |-> records[i]]]

\* faulty variant: every statement is committed as it runs
Autocommitted(st, rows) == [st EXCEPT !.rows = rows]

\* what the table holds while a transaction works on its copy
WhileOpen(st, rows) == st

\* the records of a kind
RecordsOf(kind, overview, posts, hashtags) ==
    CASE kind = "countries" -> overview.TopCountries
      [] kind = "posts" -> posts
      [] OTHER -> hashtags

\* replaceCollection, run to its commit
replaceCollection(st, key, kind, records) ==
    [st EXCEPT !.rows = insertRows(deleteRows(@, key, kind), key, kind, records)]

\* the database after a run has stored its data
RECURSIVE Replaced(_, _, _, _, _, _)
Replaced(st, key, overview, posts, hashtags, k) ==
    IF k > Len(Kinds) THEN st
    ELSE Replaced(replaceCollection(st, key, Kinds[k],
                                    RecordsOf(Kinds[k], overview, posts, hashtags)),
                  key, overview, posts, hashtags, k + 1)

StoreAfter(st, key, overview, posts, hashtags) ==
    Replaced(putSummary(st, SnapshotOf(key, overview)), key, overview, posts, hashtags, 1)

(***************************************************************************)
(* The environment: file names, documents, text-generation outcomes.       *)
(***************************************************************************)
Filler == <<"x">>

Record(fields) == [err |-> "nil", rec |-> fields]

Preamble == [i \in 1..PreambleLines |-> Record(<<Filler>>)]

Letters == <<"a", "b", "c", "d", "e", "f", "g", "h", "i", "j">>

SeqsUpTo(S, n) == UNION {[1..k -> S] : k \in 0..n}

\* n values, the odd ones low and the even ones high
Alternating(low, high, n) == [k \in 1..n |-> IF k % 2 = 1 THEN low ELSE high]

\* the lists of key texts of the ranked documents: every list of up to
\* MaxRows rows, and two longer ones
RankedLists(low, high) ==
    SeqsUpTo({low, high}, MaxRows)
    \cup {Alternating(low, high, MaxRows + 1), Alternating(low, high, MaxRows + 2)}

Organizations == <<<<"A","C","M","E"," ","I","n","c"," ","(","W","o","r","k","s","p","a","c","e",")">>, <<"A","-","B"," ","1"," ","F","e","b"," ","1","9","9","9">>>>

OverviewKind == <<"O","v","e","r","v","i","e","w">>

EndDate == <<"3","1"," ","D","e","c"," ","2","0","3","0">>

MonthTexts == MonthAbbrevs \o << <<"F","o","o">>, <<"j","u","l">> >>

DayTexts == {<<"1">>, <<"1","5">>, <<"x">>, <<>>}

YearTexts == {<<"2","0","2","5">>, <<"1","9","9","9">>, <<"2","0","x","5">>}

RangeSeparators == {<<" ","-"," ">>, <<"-">>, <<" ">>}

NameParts ==
    [segs : 1..4, org : 1..2, day : DayTexts, mon : 1..Len(MonthTexts),
     year : YearTexts, sep : RangeSeparators]

Dot == <<" ">> \o Delimiter \o <<" ">>

\* the name of the overview file that file discovery hands to main
FileNameOf(p) ==
    LET head == CASE p.segs = 1 -> OverviewKind \o <<" ">>
                  [] p.segs = 2 -> OverviewKind \o Dot
                  [] p.segs = 3 -> Organizations[p.org] \o Dot \o OverviewKind \o Dot
                  [] OTHER -> Organizations[p.org] \o Dot \o <<"E","U">> \o Dot
                              \o OverviewKind \o Dot
    IN  head \o p.day \o <<" ">> \o MonthTexts[p.mon] \o <<" ">> \o p.year
             \o p.sep \o EndDate \o <<".","c","s","v">>

BaseName == [segs |-> 3, org |-> 1, day |-> <<"1">>, mon |-> 7,
             year |-> <<"2","0","2","5">>, sep |-> <<" ","-"," ">>]

\* the two other files of the month
OtherNameOf(label) ==
    Organizations[1] \o Dot \o label \o Dot
        \o <<"1"," ","J","u","l"," ","2","0","2","5"," ","-"," ">> \o EndDate \o CsvSuffix

HashtagName == OtherNameOf(HashtagAnalysisLabel)

PostsName == OtherNameOf(PostInsightsLabel)

Entry(name) == [name |-> name, isDir |-> FALSE]

Listed(files) == [err |-> "nil", files |-> files]

\* the directory that holds the month's three files, in the order of os.ReadDir
\* (by file name)
DirectoryOf(p) ==
    CASE p.segs \in {1, 2} ->
            <<Entry(HashtagName), Entry(PostsName), Entry(FileNameOf(p))>>
      [] p.segs = 3 /\ p.org = 1 ->
            <<Entry(HashtagName), Entry(FileNameOf(p)), Entry(PostsName)>>
      [] OTHER ->
            <<Entry(FileNameOf(p)), Entry(HashtagName), Entry(PostsName)>>

HereDir == [stat |-> "dir", path |-> CurrentDir]

DataDir == <<"d","a","t","a">>

\* directory entries for the search, in the order of os.ReadDir
EntryPool ==
    <<Entry(HashtagName), Entry(FileNameOf(BaseName)), Entry(PostsName),
      [name |-> OverviewLabel \o CsvSuffix, isDir |-> TRUE],
      Entry(PostInsightsLabel \o <<" ">> \o OverviewLabel \o CsvSuffix),
      Entry(<<"n","o","t","e","s">> \o CsvSuffix),
      Entry(<<"o","v","e","r","v","i","e","w">> \o CsvSuffix)>>

\* the entries of the pool at the places ks, in the pool's order
RECURSIVE Chosen(_, _)
Chosen(ks, from) ==
    IF from > Len(EntryPool) THEN <<>>
    ELSE (IF from \in ks THEN <<EntryPool[from]>> ELSE <<>>) \o Chosen(ks, from + 1)

Listings ==
    {Listed(Chosen(ks, 1)) : ks \in SUBSET (1..Len(EntryPool))}
    \cup {[err |-> "permission denied", files |-> <<>>]}

Params ==
    {HereDir, [stat |-> "dir", path |-> DataDir],
     [stat |-> "file", path |-> JoinPath(DataDir, FileNameOf(BaseName))],
     [stat |-> "file", path |-> PostsName],
     [stat |-> "file", path |-> JoinPath(DataDir, <<"n","o","t","e","s">> \o CsvSuffix)],
     [stat |-> "file", path |-> <<"r","e","a","d","m","e",".","t","x","t">>],
     [stat |-> "error", path |-> DataDir],
     [stat |-> "absent", path |-> <<>>]}

ConfigStates == {"ok", "unreadable", "invalid"}

\* overview documents
OverviewDataRow ==
    <<<<"A","C","M","E"," ","I","n","c"," ","(","W","o","r","k","s","p","a","c","e",")">>, <<"x">>, <<"1","2","0","0">>, <<"3","4","0","0">>, <<"1","2",".","5">>, <<"x">>, <<"5","6","0">>, <<"4",".","7","%">>>>

CountryRow(k, users) == Record(<< <<"C">> \o <<Letters[k]>>, users >>)

OverviewDocOf(userTexts) ==
    Preamble \o <<Record(<<WorkspaceNameLabel, Filler>>), Record(OverviewDataRow),
                  Record(<<TopCountriesLabel>>)>>
             \o [k \in 1..Len(userTexts) |-> CountryRow(k, userTexts[k])]

OddUserTexts == {<<"6","0">>, <<"0">>, <<"-","5">>, <<"5">>, <<"x">>, <<>>}

\* what Read can return for a line of an overview file: the two sentinel rows,
\* a row that spells the first in lower case, the data row, a line the reader
\* rejects
SectionItems ==
    {Record(<<WorkspaceNameLabel \o <<":">>, Filler>>),
     Record(<<<<"w","o","r","k","s","p","a","c","e"," ","n","a","m","e">>, Filler>>),
     Record(OverviewDataRow),
     Record(<<<<" ">> \o TopCountriesLabel \o <<" ">>, Filler>>),
     [err |-> "parse", rec |-> <<>>]}

MaxSectionLines == 4

\* what Read can return for a line after the "Top Countries" row
CountryItems ==
    {CountryRow(1, <<"6","0">>),
     Record(<<<<" ","C","b"," ">>, <<" ","1","2"," ">>, Filler>>),
     Record(<<<<" ">>, <<"7">>>>),
     Record(<<<<"T","o","p","e","k","a">>, <<"7">>>>),
     Record(<<<<"C","c">>>>),
     Record(<<<<"C","d">>, <<"1",".","5">>>>),
     [err |-> "parse", rec |-> <<>>]}

MaxCountryLines == 3

CountryDocs ==
    {<<Record(<<WorkspaceNameLabel, Filler>>), Record(OverviewDataRow),
       Record(<<TopCountriesLabel>>)>> \o rows : rows \in SeqsUpTo(CountryItems, MaxCountryLines)}

OverviewDocs ==
    {OverviewDocOf(us) : us \in RankedLists(<<"4","0">>, <<"6","0">>) \cup SeqsUpTo(OddUserTexts, 3)}
    \cup SeqsUpTo(SectionItems, MaxSectionLines)
    \cup CountryDocs

BaseOverviewDoc == OverviewDocOf(<<<<"6","0">>, <<"4","0">>>>)

\* workspace names as the export writes them, and others
WorkspaceTexts ==
    {OverviewDataRow[1],
     WorkspaceMarker \o <<" ","B","e","t","a">>,
     <<"D","e","l","t","a"," ">> \o WorkspaceMarker \o <<" ","C","o">>,
     <<" ","G","a","m","m","a">> \o WorkspaceMarker \o WorkspaceMarker \o <<" ">>,
     <<"(","w","o","r","k","s","p","a","c","e",")">>}

OverviewDocNamed(name) ==
    Preamble \o <<Record(<<WorkspaceNameLabel, Filler>>),
                  Record([OverviewDataRow EXCEPT ![1] = name]),
                  Record(<<TopCountriesLabel>>), CountryRow(1, <<"6","0">>)>>

\* post insights documents
PostRow(width, text, type, reactions) ==
    Record([k \in 1..width |->
        CASE k = 5 -> text [] k = 6 -> type [] k = 9 -> reactions [] OTHER -> Filler])

PostTypes == {StatusLabel, <<" ">> \o StatusLabel \o <<" ">>, <<"P","h","o","t","o">>}

ReactionTexts == {<<"4","2">>, <<"9","9","9">>, <<"-">>}

PostWidths == {7, 8, 9, 14}

FilterRows ==
    {PostRow(w, <<"t">>, t, r) : w \in PostWidths, t \in PostTypes, r \in ReactionTexts}

RankedPostsDoc(rs) ==
    Preamble \o [k \in 1..Len(rs) |-> PostRow(14, <<Letters[k]>>, StatusLabel, rs[k])]

Repeat(unit, n) == Join([i \in 1..n |-> unit], <<>>)

TextUnits ==
    {<<"a","b">>, <<"C3","A9">>, <<"a"," ">>, <<"a","\n">>, <<" ","\r","\n","a">>,
     <<"a","\t"," ">>}

PostTexts ==
    {Repeat(u, n) \o tail : u \in TextUnits, n \in 0..MaxTextUnits, tail \in {<<>>, <<"a">>}}

SevenPostsDoc ==
    RankedPostsDoc(<< <<"3">>, <<"1">>, <<"4">>, <<"1">>, <<"5">>, <<"9">>, <<"2">> >>)

PostsDocs ==
    {Preamble \o rows : rows \in SeqsUpTo(FilterRows, 2)}
    \cup {RankedPostsDoc(rs) : rs \in RankedLists(<<"1">>, <<"2">>)}
    \cup {SevenPostsDoc}
    \cup {Preamble \o <<PostRow(14, t, StatusLabel, <<"7">>)>> : t \in PostTexts}

BasePostsDoc == RankedPostsDoc(<<<<"4","2">>, <<"7">>>>)

\* hashtag analysis documents; a row of the higher score has the lower reach
HashtagRow(k, score) ==
    Record(<< <<"#">> \o <<Letters[k]>>, Filler, Filler, Filler, score,
              IF score = <<"2">> THEN <<"1","0">> ELSE <<"2","0">>,
              <<"3">>, <<"4">>, <<"5">>, <<"6">> >>)

HashtagDocOf(scores) == Preamble \o [k \in 1..Len(scores) |-> HashtagRow(k, scores[k])]

HashtagDocs == {HashtagDocOf(ss) : ss \in RankedLists(<<"1",".","5">>, <<"2">>)}

BaseHashtagDoc == HashtagDocOf(<< <<"2">>, <<"1",".","5">> >>)

\* texts of an integer column with the number they stand for; 0 for a text that
\* is no number
IntCases ==
    {[text |-> <<"1","2","0","0">>, value |-> 1200],
     [text |-> <<"3","4","0","0">>, value |-> 3400],
     [text |-> <<"5","6","0">>, value |-> 560],
     [text |-> <<"1","0">>, value |-> 10],
     [text |-> <<"2","0">>, value |-> 20],
     [text |-> <<"3">>, value |-> 3],
     [text |-> <<"4">>, value |-> 4],
     [text |-> <<"5">>, value |-> 5],
     [text |-> <<"6">>, value |-> 6],
     [text |-> <<" ","4","2"," ">>, value |-> 42],
     [text |-> <<>>, value |-> 0],
     [text |-> <<"-">>, value |-> 0],
     [text |-> <<"x">>, value |-> 0],
     [text |-> <<"n","/","a">>, value |-> 0]}

\* texts of a rate or score column with the number they stand for
RateCases ==
    {[text |-> <<"1","2",".","5">>, value |-> [num |-> 125, den |-> 10]],
     [text |-> <<"4",".","7","%">>, value |-> [num |-> 47, den |-> 10]],
     [text |-> <<" ","3"," ","%">>, value |-> [num |-> 3, den |-> 1]],
     [text |-> <<"1",".","5">>, value |-> [num |-> 15, den |-> 10]],
     [text |-> <<"2">>, value |-> [num |-> 2, den |-> 1]],
     [text |-> <<>>, value |-> ZeroFloat],
     [text |-> <<"-">>, value |-> ZeroFloat],
     [text |-> <<"%">>, value |-> ZeroFloat],
     [text |-> <<"n","/","a">>, value |-> ZeroFloat]}

OddIntTexts == {<<" ","4","2"," ">>, <<>>, <<"-">>, <<"x">>, <<"n","/","a">>}

OddRateTexts == {<<"4",".","7","%">>, <<" ","3"," ","%">>, <<>>, <<"-">>, <<"%">>, <<"n","/","a">>}

OverviewWith(row) ==
    <<Record(<<WorkspaceNameLabel, Filler>>), Record(row), Record(<<TopCountriesLabel>>),
      CountryRow(1, <<"6","0">>)>>

\* overview files with one numeric column off, and with rows of every width
FieldOverviewDocs ==
    {OverviewWith([OverviewDataRow EXCEPT ![k] = t]) : k \in {3, 4, 7}, t \in OddIntTexts}
    \cup {OverviewWith([OverviewDataRow EXCEPT ![k] = t]) : k \in {5, 8}, t \in OddRateTexts}
    \cup {OverviewWith(SubSeq(OverviewDataRow, 1, w)) : w \in 1..Len(OverviewDataRow)}

\* what Read can return for a line of a post insights file: rows with a
\* reaction count, rows that end before it, a rejected line, a failing file
FieldPostItems ==
    {PostRow(9, <<"t">>, StatusLabel, t) : t \in OddIntTexts \cup {<<"5","6","0">>}}
    \cup {PostRow(w, <<"t">>, ty, <<"3">>) : w \in {7, 8}, ty \in {StatusLabel, <<"P","h","o","t","o">>}}
    \cup {[err |-> "parse", rec |-> <<>>], ReadFailure}

FieldPostsDocs == {Preamble \o rows : rows \in SeqsUpTo(FieldPostItems, 2)}

HashtagRowWith(width, k, text) ==
    Record(SubSeq([HashtagRow(1, <<"2">>).rec EXCEPT ![k] = text], 1, width))

FieldHashtagItems ==
    {HashtagRowWith(w, 5, t) : w \in {6, 10}, t \in OddRateTexts}
    \cup {HashtagRowWith(10, k, t) : k \in 6..10, t \in OddIntTexts}
    \cup {HashtagRowWith(w, 5, <<"2">>) : w \in {5, 6, 9, 10}}
    \cup {[err |-> "parse", rec |-> <<>>], ReadFailure}

FieldHashtagDocs ==
    {Preamble \o <<item>> : item \in FieldHashtagItems}
    \cup {Preamble \o <<item, HashtagRow(2, <<"1",".","5">>)>> : item \in FieldHashtagItems}

\* what an earlier run read: other numbers, other rows
EarlierOverviewDoc ==
    Preamble \o <<Record(<<WorkspaceNameLabel, Filler>>),
                  Record(<<OverviewDataRow[1], <<"x">>, <<"1","0","0","0">>, <<"1","7","0","0">>,
                           <<"6",".","2">>, <<"x">>, <<"0">>, <<"3",".","2","%">>>>),
                  Record(<<TopCountriesLabel>>), CountryRow(3, <<"5">>),
                  CountryRow(4, <<"1","5">>), CountryRow(5, <<"3","0">>)>>

RunData(overviewDocument, postsDocument, hashtagDocument) ==
    [overview |-> readOverviewFile(overviewDocument).val,
     posts |-> readPostInsightsFile(postsDocument).val,
     hashtags |-> readHashtagAnalysisFile(hashtagDocument).val]

EarlierData ==
    RunData(EarlierOverviewDoc, RankedPostsDoc(<< <<"8">> >>), HashtagDocOf(<< <<"1",".","5">> >>))

EarlierPeriods ==
    {<<"2","0","2","4","-","1","2">>, <<"2","0","2","5","-","0","6">>,
     <<"2","0","2","5","-","0","7">>, <<"2","0","2","5","-","0","1">>,
     <<"2","0","2","4","-","0","1">>}

OtherOrganization == <<"O","t","h","e","r">>

StoredRun(st, org, period, d) ==
    StoreAfter(st, [org |-> org, period |-> period], d.overview, d.posts, d.hashtags)

\* the database before the run: empty, or holding one month of this
\* organization (the data of this run or other data), alone or next to the
\* same month of another organization
EarlierStores(now) ==
    LET org == now.overview.WorkspaceName
        others == {EmptyStore}
                  \cup {StoredRun(EmptyStore, OtherOrganization, per, EarlierData) :
                            per \in {<<"2","0","2","4","-","1","2">>, <<"2","0","2","5","-","0","7">>}}
    IN  {EmptyStore}
        \cup {StoredRun(st, org, per, d) :
                  st \in others, per \in EarlierPeriods, d \in {now, EarlierData}}

NoFault == [step |-> "none", kind |-> 0]

\* the statement that fails: the upsert, or the delete, the insert or the commit of
\* one of the three replacements
Faults ==
    {NoFault, [step |-> "putSummary", kind |-> 0]}
    \cup [step : {"delete", "insert", "commit"}, kind : 1..Len(Kinds)]

StoreNames == {BaseName, [BaseName EXCEPT !.mon = 1], [BaseName EXCEPT !.segs = 2]}

\* how a text-generation call ends: a reply, no API key in the environment, a
\* transport error or the 30 s timeout, a status other than 200, a body that does
\* not decode, a reply without choices
LLMOutcomes == {"ok", "no key", "timeout", "status", "decode", "no choices"}

\* the environment variable is read by both calls
LLMPairs ==
    {p \in [insights : LLMOutcomes, nextSteps : LLMOutcomes] :
        (p.insights = "no key") <=> (p.nextSteps = "no key")}

Replied == {[insights |-> "ok", nextSteps |-> "ok"]}

(***************************************************************************)
(* main: the files are found, the configuration is loaded, the files are   *)
(* read and stored, the report is assembled, narrated, named and written.  *)
(***************************************************************************)
InsightsPlaceholder == "Insights generation failed. Please check API configuration."

NextStepsPlaceholder == "Next steps generation failed. Please check API configuration."

Unset == [val |-> <<>>, err |-> "unset"]

\* the process before its first statement
InitRun ==
    /\ pc = "findCSVFiles"
    /\ overviewFile = <<>>
    /\ postsFile = <<>>
    /\ hashtagFile = <<>>
    /\ overviewData = NoOverview
    /\ postsData = <<>>
    /\ hashtagData = <<>>
    /\ reportData = NoReport
    /\ dateResult = Unset
    /\ reportFilename = Unset
    /\ insights = ""
    /\ nextSteps = ""
    /\ reportFile = NoFile
    /\ exit = ""
    /\ txn = NoTxn

\* a run on the directory of one month
InitOf(names, overviewDocs, postsDocs, hashtagDocs, outcomes) ==
    /\ InitRun
    /\ fileNameParts \in names
    /\ param = HereDir
    /\ listing = Listed(DirectoryOf(fileNameParts))
    /\ configFile = "ok"
    /\ overviewDoc \in overviewDocs
    /\ postsDoc \in postsDocs
    /\ hashtagDoc \in hashtagDocs
    /\ llm \in outcomes
    /\ earlier = EmptyStore
    /\ store = earlier
    /\ fault = NoFault

FindCSVFiles ==
    /\ pc = "findCSVFiles"
    /\ IF param.stat = "absent"
       THEN /\ pc' = "fatal"
            /\ exit' = "Usage: go run main.go <file-or-directory>"
            /\ UNCHANGED <<overviewFile, postsFile, hashtagFile>>
       ELSE LET r == findCSVFiles(param, listing)
            IN  /\ overviewFile' = r.overview
                /\ postsFile' = r.posts
                /\ hashtagFile' = r.hashtags
                /\ pc' = IF r.err # "nil" THEN "fatal" ELSE "loadConfig"
                /\ exit' = IF r.err # "nil" THEN "Error finding CSV files" ELSE ""
    /\ UNCHANGED <<fileNameParts, param, listing, configFile, overviewDoc, postsDoc,
                   hashtagDoc, llm, overviewData, postsData, hashtagData, reportData,
                   dateResult, reportFilename, insights, nextSteps, reportFile>>
    /\ UNCHANGED persistence

LoadConfig ==
    /\ pc = "loadConfig"
    /\ pc' = IF loadConfig(configFile) # "nil" THEN "fatal" ELSE "readOverviewFile"
    /\ exit' = IF loadConfig(configFile) # "nil" THEN "Error loading config" ELSE ""
    /\ UNCHANGED <<fileNameParts, overviewFile, overviewDoc, postsDoc, hashtagDoc, llm,
                   overviewData, postsData, hashtagData, reportData, dateResult,
                   reportFilename, insights, nextSteps, reportFile>>
    /\ UNCHANGED discovery
    /\ UNCHANGED persistence

\* where main goes after a reader returns
AfterRead(status, next) ==
    CASE status = "nil" -> next
      [] status = "err" -> "fatal"
      [] status = "spin" -> "reading"
      [] OTHER -> "panic"

\* what the process prints when it ends there
ExitMessage(status, fatal, function) ==
    CASE status = "nil" -> ""
      [] status = "err" -> fatal
      [] OTHER -> function

ReadOverviewFile ==
    /\ pc = "readOverviewFile"
    /\ LET r == readOverviewFile(overviewDoc)
       IN  /\ overviewData' = r.val
           /\ pc' = AfterRead(r.status, "readPostInsightsFile")
           /\ exit' = ExitMessage(r.status, "Error reading overview file", "readOverviewFile")
    /\ UNCHANGED <<fileNameParts, overviewFile, overviewDoc, postsDoc, hashtagDoc, llm,
                   postsData, hashtagData, reportData, dateResult, reportFilename,
                   insights, nextSteps, reportFile>>
    /\ UNCHANGED discovery
    /\ UNCHANGED persistence

ReadPostInsightsFile ==
    /\ pc = "readPostInsightsFile"
    /\ LET r == readPostInsightsFile(postsDoc)
       IN  /\ postsData' = r.val
           /\ pc' = AfterRead(r.status, "readHashtagAnalysisFile")
           /\ exit' = ExitMessage(r.status, "Error reading post insights file",
                                  "readPostInsightsFile")
    /\ UNCHANGED <<fileNameParts, overviewFile, overviewDoc, postsDoc, hashtagDoc, llm,
                   overviewData, hashtagData, reportData, dateResult, reportFilename,
                   insights, nextSteps, reportFile>>
    /\ UNCHANGED discovery
    /\ UNCHANGED persistence

ReadHashtagAnalysisFile ==
    /\ pc = "readHashtagAnalysisFile"
    /\ LET r == readHashtagAnalysisFile(hashtagDoc)
       IN  /\ hashtagData' = r.val
           /\ pc' = AfterRead(r.status, "putSummary")
           /\ exit' = ExitMessage(r.status, "Error reading hashtag analysis file",
                                  "readHashtagAnalysisFile")
    /\ UNCHANGED <<fileNameParts, overviewFile, overviewDoc, postsDoc, hashtagDoc, llm,
                   overviewData, postsData, reportData, dateResult, reportFilename,
                   insights, nextSteps, reportFile>>
    /\ UNCHANGED discovery
    /\ UNCHANGED persistence

\* a failed statement: the transaction is rolled back and the run ends
Rollback ==
    /\ pc' = "fatal"
    /\ exit' = "Error storing data"
    /\ txn' = [txn EXCEPT !.open = FALSE, !.rows = <<>>]
    /\ store' = store

\* the overview snapshot is stored under the period key; without a period
\* there is no key, and main reports the file name when it names the report
PutSummary ==
    /\ pc = "putSummary"
    /\ IF extractDateFromFilename(overviewFile).err # "nil"
       THEN /\ pc' = "prepareReportData"
            /\ UNCHANGED <<store, txn, exit>>
       ELSE IF fault.step = "putSummary"
       THEN Rollback
       ELSE /\ store' = putSummary(store, SnapshotOf(KeyOf(overviewData, overviewFile),
                                                     overviewData))
            /\ txn' = [NoTxn EXCEPT !.kind = 1]
            /\ pc' = "replaceDelete"
            /\ exit' = exit
    /\ UNCHANGED <<run, discovery, fault, earlier>>

\* replaceCollection, its three statements: delete the key's rows of the kind
ReplaceDelete ==
    /\ pc = "replaceDelete"
    /\ IF fault = [step |-> "delete", kind |-> txn.kind]
       THEN Rollback
       ELSE LET rows == deleteRows(store.rows, KeyOf(overviewData, overviewFile),
                                   Kinds[txn.kind])
            IN  /\ txn' = [txn EXCEPT !.open = TRUE, !.rows = rows]
                /\ store' = WhileOpen(store, rows)
                /\ pc' = "replaceInsert"
                /\ exit' = exit
    /\ UNCHANGED <<run, discovery, fault, earlier>>

\* ... insert the new set
ReplaceInsert ==
    /\ pc = "replaceInsert"
    /\ IF fault = [step |-> "insert", kind |-> txn.kind]
       THEN Rollback
       ELSE LET rows == insertRows(txn.rows, KeyOf(overviewData, overviewFile),
                                   Kinds[txn.kind],
                                   RecordsOf(Kinds[txn.kind], overviewData, postsData,
                                             hashtagData))
            IN  /\ txn' = [txn EXCEPT !.rows = rows]
                /\ store' = WhileOpen(store, rows)
                /\ pc' = "replaceCommit"
                /\ exit' = exit
    /\ UNCHANGED <<run, discovery, fault, earlier>>

\* ... commit, and on to the next kind
ReplaceCommit ==
    /\ pc = "replaceCommit"
    /\ IF fault = [step |-> "commit", kind |-> txn.kind]
       THEN Rollback
       ELSE /\ store' = [store EXCEPT !.rows = txn.rows]
            /\ txn' = IF txn.kind < Len(Kinds) THEN [NoTxn EXCEPT !.kind = txn.kind + 1]
                      ELSE NoTxn
            /\ pc' = IF txn.kind < Len(Kinds) THEN "replaceDelete" ELSE "prepareReportData"
            /\ exit' = exit
    /\ UNCHANGED <<run, discovery, fault, earlier>>

\* sort.Slice sorts the caller's slices in place
PrepareReportData ==
    /\ pc = "prepareReportData"
    /\ LET data == ReportOf(overviewData, <<>>, <<>>, <<>>, overviewFile)
       IN  \E c \in SortedCountries(overviewData.TopCountries),
              p \in SortedPosts(postsData),
              h \in SortedHashtags(hashtagData) :
              /\ overviewData' = [overviewData EXCEPT !.TopCountries = c]
              /\ postsData' = p
              /\ hashtagData' = h
              /\ reportData' = WithTopLists(data, c, p, h)
    /\ pc' = "generateInsights"
    /\ UNCHANGED <<fileNameParts, overviewFile, overviewDoc, postsDoc, hashtagDoc, llm,
                   dateResult, reportFilename, insights, nextSteps, reportFile, exit>>
    /\ UNCHANGED discovery
    /\ UNCHANGED persistence

\* callOpenAI: every way the call can end but a reply is an error
callOpenAI(outcome, reply) ==
    IF outcome = "ok" THEN [val |-> reply, err |-> "nil"] ELSE [val |-> "", err |-> outcome]

generateInsights(outcome) == callOpenAI(outcome, "generated insights")

generateNextSteps(outcome) == callOpenAI(outcome, "generated next steps")

\* faulty variant: the text as the call returned it
TextAsReturned(r, placeholder) == r.val

\* main: the placeholder stands in for the text of a call that failed
TextOr(r, placeholder) == IF r.err # "nil" THEN placeholder ELSE r.val

GenerateInsights ==
    /\ pc = "generateInsights"
    /\ insights' = TextOr(generateInsights(llm.insights), InsightsPlaceholder)
    /\ pc' = "generateNextSteps"
    /\ UNCHANGED <<fileNameParts, overviewFile, overviewDoc, postsDoc, hashtagDoc, llm,
                   overviewData, postsData, hashtagData, reportData, dateResult,
                   reportFilename, nextSteps, reportFile, exit>>
    /\ UNCHANGED discovery
    /\ UNCHANGED persistence

GenerateNextSteps ==
    /\ pc = "generateNextSteps"
    /\ LET text == TextOr(generateNextSteps(llm.nextSteps), NextStepsPlaceholder)
       IN  /\ nextSteps' = text
           /\ reportData' = [reportData EXCEPT !.Insights = insights, !.NextSteps = text]
    /\ pc' = "generateReportFilename"
    /\ UNCHANGED <<fileNameParts, overviewFile, overviewDoc, postsDoc, hashtagDoc, llm,
                   overviewData, postsData, hashtagData, dateResult, reportFilename,
                   insights, reportFile, exit>>
    /\ UNCHANGED discovery
    /\ UNCHANGED persistence

GenerateReportFilename ==
    /\ pc = "generateReportFilename"
    /\ dateResult' = extractDateFromFilename(overviewFile)
    /\ LET r == generateReportFilename(overviewData.WorkspaceName, overviewFile)
       IN  /\ reportFilename' = r
           /\ pc' = IF r.err # "nil" THEN "fatal" ELSE "generateReport"
           /\ exit' = IF r.err # "nil" THEN "Error generating report filename" ELSE ""
    /\ UNCHANGED <<fileNameParts, overviewFile, overviewDoc, postsDoc, hashtagDoc, llm,
                   overviewData, postsData, hashtagData, reportData, insights, nextSteps,
                   reportFile>>
    /\ UNCHANGED discovery
    /\ UNCHANGED persistence

GenerateReport ==
    /\ pc = "generateReport"
    /\ reportFile' = RenderedReport(reportData, reportFilename.val)
    /\ pc' = "done"
    /\ UNCHANGED <<fileNameParts, overviewFile, overviewDoc, postsDoc, hashtagDoc, llm,
                   overviewData, postsData, hashtagData, reportData, dateResult,
                   reportFilename, insights, nextSteps, exit>>
    /\ UNCHANGED discovery
    /\ UNCHANGED persistence

Next ==
    \/ FindCSVFiles
    \/ LoadConfig
    \/ ReadOverviewFile
    \/ ReadPostInsightsFile
    \/ ReadHashtagAnalysisFile
    \/ PutSummary
    \/ ReplaceDelete
    \/ ReplaceInsert
    \/ ReplaceCommit
    \/ PrepareReportData
    \/ GenerateInsights
    \/ GenerateNextSteps
    \/ GenerateReportFilename
    \/ GenerateReport

\* the run on every file name, with the documents of one month
InitFilename ==
    InitOf(NameParts, {BaseOverviewDoc}, {BasePostsDoc}, {BaseHashtagDoc}, Replied)

\* the run on every overview document
InitOverview ==
    InitOf({BaseName}, OverviewDocs, {BasePostsDoc}, {BaseHashtagDoc}, Replied)

\* the run on every post insights document
InitPosts ==
    InitOf({BaseName}, {BaseOverviewDoc}, PostsDocs, {BaseHashtagDoc}, Replied)

\* the run on every hashtag analysis document
InitHashtags ==
    InitOf({BaseName}, {BaseOverviewDoc}, {BasePostsDoc}, HashtagDocs, Replied)

\* the run on rows of every width and on numeric columns of every kind
InitFields ==
    \/ InitOf({BaseName}, FieldOverviewDocs, {BasePostsDoc}, {BaseHashtagDoc}, Replied)
    \/ InitOf({BaseName}, {BaseOverviewDoc}, FieldPostsDocs, {BaseHashtagDoc}, Replied)
    \/ InitOf({BaseName}, {BaseOverviewDoc}, {BasePostsDoc}, FieldHashtagDocs, Replied)

\* the run on every directory and command line, with the documents of one month
InitDiscovery ==
    /\ InitRun
    /\ fileNameParts = BaseName
    /\ param \in Params
    /\ listing \in Listings
    /\ configFile \in ConfigStates
    /\ overviewDoc = BaseOverviewDoc
    /\ postsDoc = BasePostsDoc
    /\ hashtagDoc = BaseHashtagDoc
    /\ llm \in Replied
    /\ earlier = EmptyStore
    /\ store = earlier
    /\ fault = NoFault

\* the run on every outcome of the two text-generation calls
InitNarrative ==
    InitOf({BaseName, [BaseName EXCEPT !.segs = 2], [BaseName EXCEPT !.mon = 13]},
           {BaseOverviewDoc}, {BasePostsDoc}, {BaseHashtagDoc}, LLMPairs)

\* the run on every workspace name and every start month
InitReportName ==
    InitOf({p \in NameParts : p.day = <<"1">> /\ p.sep = <<" ", "-", " ">>},
           {OverviewDocNamed(w) : w \in WorkspaceTexts}, {BasePostsDoc}, {BaseHashtagDoc},
           Replied)

\* the run on every database that earlier runs can have left and every failing
\* statement
InitStore ==
    /\ InitRun
    /\ fileNameParts \in StoreNames
    /\ param = HereDir
    /\ listing = Listed(DirectoryOf(fileNameParts))
    /\ configFile = "ok"
    /\ overviewDoc = BaseOverviewDoc
    /\ postsDoc = BasePostsDoc
    /\ hashtagDoc = BaseHashtagDoc
    /\ llm \in Replied
    /\ earlier \in EarlierStores(RunData(overviewDoc, postsDoc, hashtagDoc))
    /\ store = earlier
    /\ fault \in Faults

Init ==
    InitFilename \/ InitOverview \/ InitPosts \/ InitHashtags \/ InitDiscovery
    \/ InitNarrative \/ InitReportName \/ InitStore \/ InitFields

Spec == Init /\ [][Next]_vars

SpecFilename == InitFilename /\ [][Next]_vars

SpecOverview == InitOverview /\ [][Next]_vars

SpecPosts == InitPosts /\ [][Next]_vars

SpecHashtags == InitHashtags /\ [][Next]_vars

SpecDiscovery == InitDiscovery /\ [][Next]_vars

SpecNarrative == InitNarrative /\ [][Next]_vars

SpecReportName == InitReportName /\ [][Next]_vars

SpecStore == InitStore /\ [][Next]_vars

SpecFields == InitFields /\ [][Next]_vars

(***************************************************************************)
(* Claims about the period key (extractDateFromFilename).                  *)
(***************************************************************************)
\* ^[0-9]{4}-(0[1-9]|1[0-2])$
PeriodMatches(p) ==
    /\ Len(p) = 7
    /\ \A i \in 1..4 : IsDigit(p[i])
    /\ p[5] = "-"
    /\ \/ p[6] = "0" /\ IsDigit(p[7]) /\ p[7] # "0"
       \/ p[6] = "1" /\ p[7] \in {"0", "1", "2"}

\* the number of delimiter characters in a name
DelimiterCount(f) ==
    Cardinality({i \in 1..(Len(f) - 2) : SubSeq(f, i, i + 2) = Delimiter})

IsNumber(t) == t # <<>> /\ \A i \in 1..Len(t) : IsDigit(t[i])

\* the calendar number of a month, two digits
TwoDigits(k) == <<Digits[(k \div 10) + 1], Digits[(k % 10) + 1]>>

\* "<Organization> . <TableKind> . <D Mon YYYY> - <D Mon YYYY>.csv"
DocumentedForm(p) ==
    /\ p.segs = 3
    /\ IsNumber(p.day)
    /\ p.mon <= 12
    /\ IsNumber(p.year) /\ Len(p.year) = 4
    /\ p.sep = <<" ", "-", " ">>

DateExtracted == dateResult.err # "unset"

\* C1: for every file name of the documented form extractDateFromFilename
\* returns no error and a period matching ^[0-9]{4}-(0[1-9]|1[0-2])$ whose
\* year and month are those of the start date of the range.
C1_PeriodOfStartDate ==
    (DateExtracted /\ DocumentedForm(fileNameParts)) =>
        /\ dateResult.err = "nil"
        /\ PeriodMatches(dateResult.val)
        /\ dateResult.val = fileNameParts.year \o <<"-">> \o TwoDigits(fileNameParts.mon)

C1_Witness ==
    /\ DateExtracted
    /\ DocumentedForm(fileNameParts)
    /\ fileNameParts.mon = 12
    /\ dateResult.val = <<"1","9","9","9","-","1","2">>

\* C2: for every file name of fewer than three delimiter segments
\* extractDateFromFilename returns an error and the empty string, and
\* generateReportFilename returns an error and an empty name.
C2_FewSegmentsNoPeriod ==
    (DateExtracted /\ DelimiterCount(overviewFile) < 2) =>
        /\ dateResult.err \notin {"nil", "unset"}
        /\ dateResult.val = <<>>
        /\ reportFilename.err \notin {"nil", "unset"}
        /\ reportFilename.val = <<>>

C2_Witness ==
    /\ DateExtracted
    /\ DelimiterCount(overviewFile) = 1
    /\ fileNameParts.mon = 7
    /\ fileNameParts.sep = <<" ", "-", " ">>
    /\ dateResult.err = "invalid filename format"
    /\ pc = "fatal"

\* C3: for a file name of at least three delimiter segments,
\* extractDateFromFilename returns an error when the date range holds no "-",
\* when the month abbreviation is not recognized, or when the start date has
\* no day, month and year (a day or a year that is not a number included).
C3_MalformedDateRejected ==
    (/\ DateExtracted
     /\ DelimiterCount(overviewFile) >= 2
     /\ \/ ~Contains(fileNameParts.sep, <<"-">>)
        \/ fileNameParts.mon > 12
        \/ ~IsNumber(fileNameParts.day)
        \/ ~IsNumber(fileNameParts.year))
    => dateResult.err # "nil"

(***************************************************************************)
(* Claims about post normalization and country shares.                     *)
(***************************************************************************)
\* the rows of a document after the preamble
DataRows(doc) == SubSeq(doc, PreambleLines + 1, Len(doc))

\* the rows whose trimmed type field (column 5) is "Status", in input order
StatusRows(doc) ==
    SelectSeq(DataRows(doc),
              LAMBDA item : Len(item.rec) >= 6 /\ TrimSpace(item.rec[6]) = StatusLabel)

\* the reaction count written in a row (column 8); none written counts 0
ReactionsWritten(rec) == IF Len(rec) >= 9 THEN ScanIntField(rec[9]) ELSE 0

\* every row has the documented minimum of fields
DocumentedWidth(doc) == \A i \in 1..Len(doc) : Len(doc[i].rec) >= 8

PostsJustRead ==
    \/ pc = "readHashtagAnalysisFile"
    \/ pc = "panic" /\ exit = "readPostInsightsFile"

\* C4: post normalization retains a row if and only if its trimmed type
\* field equals "Status"; the retained records come in input order, each with
\* the reaction count of its row (rows of the documented width of 8 fields
\* or more).
C4_StatusRowsRetained ==
    (PostsJustRead /\ DocumentedWidth(DataRows(postsDoc))) =>
        /\ pc # "panic"
        /\ Len(postsData) = Len(StatusRows(postsDoc))
        /\ \A k \in 1..Len(postsData) :
              /\ postsData[k].PostType = StatusLabel
              /\ postsData[k].Reactions = ReactionsWritten(StatusRows(postsDoc)[k].rec)

RECURSIVE Gcd(_, _)
Gcd(a, b) == IF b = 0 THEN a ELSE Gcd(b, a % b)

Abs(a) == IF a < 0 THEN -a ELSE a

\* the fraction in lowest terms
Reduced(x) ==
    LET g == Gcd(Abs(x.num), x.den)
    IN  [num |-> x.num \div g, den |-> x.den \div g]

\* the exact sum of fractions
RECURSIVE SumFloats(_)
SumFloats(xs) ==
    IF xs = <<>> THEN ZeroFloat
    ELSE LET rest == SumFloats(Tail(xs))
             x == Reduced(xs[1])
         IN  Reduced([num |-> x.num * rest.den + rest.num * x.den,
                      den |-> x.den * rest.den])

Hundred == [num |-> 100, den |-> 1]

OverviewRead == pc # "readOverviewFile" /\ exit # "Error reading overview file"

\* C5: after readOverviewFile, when the user counts of the ingested country
\* rows sum to a positive total, each row's percentage is users*100/total and
\* the percentages sum to 100; when they sum to zero every percentage is 0 and
\* no fault occurs.
C5_CountrySharesSumTo100 ==
    OverviewRead =>
        LET cs == overviewData.TopCountries
            total == SumUsers(cs)
        IN  /\ exit # "readOverviewFile"
            /\ total > 0 =>
                 /\ \A k \in 1..Len(cs) :
                       cs[k].Percentage.den > 0
                       /\ cs[k].Percentage.num * total = cs[k].Users * 100 * cs[k].Percentage.den
                 /\ FloatEq(SumFloats([k \in 1..Len(cs) |-> cs[k].Percentage]), Hundred)
            /\ total = 0 => \A k \in 1..Len(cs) : cs[k].Percentage = ZeroFloat

C5_Witness ==
    /\ pc = "readPostInsightsFile"
    /\ Len(overviewData.TopCountries) = 2
    /\ overviewData.TopCountries[1].Users = 60
    /\ overviewData.TopCountries[2].Users = 40
    /\ FloatEq(overviewData.TopCountries[1].Percentage, [num |-> 60, den |-> 1])
    /\ FloatEq(overviewData.TopCountries[2].Percentage, [num |-> 40, den |-> 1])

(***************************************************************************)
(* Claims about report assembly (prepareReportData, generateReport).       *)
(***************************************************************************)
\* what the readers return for the documents of the run, in ingestion order
IngestedCountries == readOverviewFile(overviewDoc).val.TopCountries

IngestedPosts == readPostInsightsFile(postsDoc).val

IngestedHashtags == readHashtagAnalysisFile(hashtagDoc).val

\* prepareReportData has returned
Assembled ==
    \/ pc \in {"generateInsights", "generateNextSteps", "generateReportFilename",
               "generateReport", "done"}
    \/ pc = "fatal" /\ exit = "Error generating report filename"

Occurrences(x, s) == Cardinality({i \in 1..Len(s) : s[i] = x})

Elements(s) == {s[i] : i \in 1..Len(s)}

\* top holds min(n, 5) of the elements of all, each no more often than all does
SelectionOf(top, all) ==
    /\ Len(top) = IF Len(all) < 5 THEN Len(all) ELSE 5
    /\ \A x \in Elements(top) : Occurrences(x, top) <= Occurrences(x, all)

\* the elements of all that top leaves out
LeftOut(top, all) == {x \in Elements(all) : Occurrences(x, top) < Occurrences(x, all)}

\* C6: TopPosts holds exactly min(n, 5) of the n normalized posts, in
\* non-increasing order of reaction count, and no post left out has more
\* reactions than a post kept.
C6_TopPostsByReactions ==
    Assembled =>
        LET top == reportData.TopPosts
            all == IngestedPosts
        IN  /\ SelectionOf(top, all)
            /\ \A i \in 1..(Len(top) - 1) : top[i].Reactions >= top[i + 1].Reactions
            /\ \A x \in LeftOut(top, all) :
                  \A k \in 1..Len(top) : x.Reactions <= top[k].Reactions

C6_Witness ==
    /\ Assembled
    /\ Len(reportData.TopPosts) = 5
    /\ [i \in 1..5 |-> reportData.TopPosts[i].Reactions] = <<9, 5, 4, 3, 2>>
    /\ Len(IngestedPosts) = 7

\* s in the order of a stable sort: an element comes after the elements that
\* are less than it and after the earlier elements that it is not less than
StablySorted(s, Less(_, _)) ==
    LET n == Len(s)
        rank(i) == 1 + Cardinality({j \in 1..n :
                        Less(s[j], s[i]) \/ (~Less(s[i], s[j]) /\ j < i)})
    IN  [k \in 1..n |-> s[CHOOSE i \in 1..n : rank(i) = k]]

FirstFive(s) == IF Len(s) > 5 THEN SubSeq(s, 1, 5) ELSE s

\* C7: the three sorts are stable: the elements of equal key come in each top
\* list in the order in which they were ingested.
C7_SortsAreStable ==
    Assembled =>
        /\ reportData.TopCountries
              = FirstFive(StablySorted(IngestedCountries, LAMBDA a, b : a.Users > b.Users))
        /\ reportData.TopPosts
              = FirstFive(StablySorted(IngestedPosts, LAMBDA a, b : a.Reactions > b.Reactions))
        /\ reportData.TopHashtags
              = FirstFive(StablySorted(IngestedHashtags,
                                       LAMBDA a, b : FloatLess(b.Score, a.Score)))

C9_TopCountriesByUsers ==
    Assembled =>
        LET top == reportData.TopCountries
            all == IngestedCountries
            total == SumUsers(all)
        IN  /\ SelectionOf(top, all)
            /\ \A i \in 1..(Len(top) - 1) : top[i].Users >= top[i + 1].Users
            /\ \A x \in LeftOut(top, all) :
                  \A k \in 1..Len(top) : x.Users <= top[k].Users
            /\ total > 0 =>
                  \A k \in 1..Len(top) :
                     top[k].Percentage.num * total
                        = top[k].Users * 100 * top[k].Percentage.den

C9_Witness ==
    /\ Assembled
    /\ Len(reportData.TopCountries) = 5
    /\ reportData.TopCountries[1].Users = 60
    /\ reportData.TopCountries[5].Users = 40
    /\ LET all == IngestedCountries
       IN  /\ Len(all) = 7
           /\ all[1].Users = 40
           /\ SumUsers(reportData.TopCountries) < SumUsers(all)

\* the first n characters of a text
FirstCharacters(s, n) ==
    LET starts == {i \in 1..Len(s) : ~IsContinuation(s[i])}
        cut == {i \in starts : Cardinality({j \in starts : j < i}) = n}
    IN  IF cut = {} THEN s ELSE SubSeq(s, 1, Min(cut) - 1)

\* C10: the displayed text of a post is its whitespace-collapsed text when that
\* has at most 50 characters, and otherwise the first 50 characters of it
\* followed by "...".
C10_TruncatedAtFiftyCharacters ==
    pc = "done" =>
        \A i \in 1..Len(reportFile.Posts) :
            LET clean == Collapse(reportData.TopPosts[i].PostText)
            IN  reportFile.Posts[i].Text =
                    IF RuneCount(clean) <= 50 THEN clean
                    ELSE FirstCharacters(clean, 50) \o <<".", ".", ".">>

(***************************************************************************)
(* Claims about the display text, the narrative texts and the report file. *)
(***************************************************************************)
\* the words of a text: the places where a run of non-space bytes starts
WordStarts(s) == {i \in 1..Len(s) : ~IsSpace(s[i]) /\ (i = 1 \/ IsSpace(s[i - 1]))}

\* the length of a text whose runs of white space are each one space and
\* that has none at its ends
CollapsedLength(s) ==
    Cardinality({i \in 1..Len(s) : ~IsSpace(s[i])})
    + (IF WordStarts(s) = {} THEN 0 ELSE Cardinality(WordStarts(s)) - 1)

\* C11: the displayed text of a reported post holds no newline, no carriage
\* return and no two white-space characters in a row, and the length test is
\* made on the collapsed text: a text that fits once collapsed is shown without
\* the marker, however long it was before.
C11_WhitespaceCollapsed ==
    pc = "done" =>
        \A i \in 1..Len(reportFile.Posts) :
            LET shown == reportFile.Posts[i].Text
                raw == reportData.TopPosts[i].PostText
            IN  /\ \A k \in 1..Len(shown) : shown[k] \notin {"\n", "\r"}
                /\ \A k \in 1..(Len(shown) - 1) : ~(IsSpace(shown[k]) /\ IsSpace(shown[k + 1]))
                /\ Len(shown) = IF CollapsedLength(raw) <= 50 THEN CollapsedLength(raw)
                                ELSE 50 + 3

C11_Witness ==
    /\ pc = "done"
    /\ \E i \in 1..Len(reportFile.Posts) :
           LET raw == reportData.TopPosts[i].PostText
           IN  /\ Len(raw) > 50
               /\ \E k \in 1..(Len(raw) - 1) : raw[k] = "\r" /\ raw[k + 1] = "\n"
               /\ CollapsedLength(raw) <= 50
               /\ Len(reportFile.Posts[i].Text) = CollapsedLength(raw)

\* the overview file's name yields a period
PeriodAvailable == extractDateFromFilename(overviewFile).err = "nil"

\* the narrative texts the report must carry for the outcomes of the two calls
NarrativesAsDocumented ==
    /\ reportFile.Insights =
           IF llm.insights = "ok" THEN "generated insights"
           ELSE "Insights generation failed. Please check API configuration."
    /\ reportFile.NextSteps =
           IF llm.nextSteps = "ok" THEN "generated next steps"
           ELSE "Next steps generation failed. Please check API configuration."

Searched == pc # "findCSVFiles"

\* path names a file of the directory listing that the classifier accepts, and
\* prefix is what precedes the file's name in it
FoundAs(path, prefix, Accepts(_)) ==
    \E k \in 1..Len(listing.files) :
        /\ ~listing.files[k].isDir
        /\ Accepts(listing.files[k].name)
        /\ path = prefix \o listing.files[k].name

\* what can precede a file's name in a path: nothing, or a directory and "/"
Prefixes == {<<>>, <<"d","a","t","a","/">>}

Recognized(name) ==
    isOverviewFile(name) \/ isPostInsightsFile(name) \/ isHashtagAnalysisFile(name)

\* the last element of a path
LastElement(path) ==
    LET cuts == {i \in 1..Len(path) : path[i] = "/"}
    IN  IF cuts = {} THEN path ELSE SubSeq(path, Max(cuts) + 1, Len(path))

\* C18: file discovery ends either with three non-empty paths, an overview,
\* a post insights and a hashtag analysis file of one directory, or with an
\* error and three empty paths; given a file that is none of the three kinds
\* it ends with the error.
C18_AllThreeOrError ==
    Searched =>
        /\ \/ /\ pc = "fatal"
              /\ exit \in {"Error finding CSV files",
                            "Usage: go run main.go <file-or-directory>"}
              /\ overviewFile = <<>> /\ postsFile = <<>> /\ hashtagFile = <<>>
           \/ /\ exit \notin {"Error finding CSV files",
                               "Usage: go run main.go <file-or-directory>"}
              /\ overviewFile # <<>> /\ postsFile # <<>> /\ hashtagFile # <<>>
              /\ \E prefix \in Prefixes :
                    /\ FoundAs(overviewFile, prefix, isOverviewFile)
                    /\ FoundAs(postsFile, prefix, isPostInsightsFile)
                    /\ FoundAs(hashtagFile, prefix, isHashtagAnalysisFile)
        /\ (param.stat = "file" /\ ~Recognized(LastElement(param.path)))
               => exit = "Error finding CSV files"

C18_Witness ==
    /\ pc = "loadConfig"
    /\ param.stat = "file"
    /\ Len(listing.files) > 3
    /\ overviewFile # <<>>

(***************************************************************************)
(* Claims about the name of the report and the period of the run.          *)
(***************************************************************************)
\* workspace names as read from the data row, and what remains of each once
\* "(Workspace)" is removed and the white space around the rest is trimmed
CleanedNames ==
    {[raw |-> OverviewDataRow[1], clean |-> <<"A","C","M","E"," ","I","n","c">>],
     [raw |-> <<"(","W","o","r","k","s","p","a","c","e",")"," ","B","e","t","a">>,
      clean |-> <<"B","e","t","a">>],
     [raw |-> <<"D","e","l","t","a"," ","(","W","o","r","k","s","p","a","c","e",")"," ","C","o">>,
      clean |-> <<"D","e","l","t","a"," "," ","C","o">>],
     [raw |-> <<"G","a","m","m","a","(","W","o","r","k","s","p","a","c","e",")","(","W","o","r","k","s","p","a","c","e",")">>,
      clean |-> <<"G","a","m","m","a">>],
     [raw |-> <<"(","w","o","r","k","s","p","a","c","e",")">>,
      clean |-> <<"(","w","o","r","k","s","p","a","c","e",")">>]}

\* C19: the report is written to the file "<workspace> <YYYY-MM>.md": the
\* workspace name read from the overview data row without "(Workspace)" and
\* without the white space around it, and the year and month of the start date in
\* the overview file's name, which for a name of the documented form reads YYYY-MM.
C19_ReportNamedAfterInput ==
    pc = "done" =>
        \E w \in CleanedNames :
            LET period == fileNameParts.year \o <<"-">> \o TwoDigits(fileNameParts.mon)
            IN  /\ overviewData.WorkspaceName = w.raw
                /\ reportFile.Name = w.clean \o <<" ">> \o period \o <<".","m","d">>
                /\ dateResult.val = period
                /\ DocumentedForm(fileNameParts) => PeriodMatches(period)

C19_Witness ==
    /\ pc = "done"
    /\ overviewDoc[PreambleLines + 2].rec[1] = <<" ","G","a","m","m","a","(","W","o","r","k","s","p","a","c","e",")","(","W","o","r","k","s","p","a","c","e",")"," ">>
    /\ reportFile.Name = <<"G","a","m","m","a"," ","1","9","9","9","-","1","2",".","m","d">>

\* C20: a run whose overview file name makes extractDateFromFilename fail never
\* creates a report file and ends, once the name of the report is asked for, as a
\* fatal error; no report is written whose month reads "Unknown Month" or whose
\* period reads "Unknown Period".
C20_NoReportWithoutPeriod ==
    /\ ~PeriodAvailable =>
            /\ reportFile = NoFile
            /\ pc \notin {"generateReport", "done"}
            /\ reportFilename.err # "unset" =>
                    /\ pc = "fatal"
                    /\ exit = "Error generating report filename"
                    /\ reportFilename.val = <<>>
    /\ pc = "done" =>
            /\ reportFile.Month # UnknownMonth
            /\ reportFile.Period # UnknownPeriod

C20_Witness ==
    /\ pc = "fatal"
    /\ exit = "Error generating report filename"
    /\ fileNameParts.segs = 3
    /\ fileNameParts.day = <<>>
    /\ reportData.Month = UnknownMonth
    /\ reportData.Insights = "generated insights"
    /\ reportFile = NoFile

(***************************************************************************)
(* Claims about the stored snapshots and the month-over-month deltas.      *)
(***************************************************************************)
FourDigits(n) ==
    <<Digits[((n \div 1000) % 10) + 1], Digits[((n \div 100) % 10) + 1],
      Digits[((n \div 10) % 10) + 1], Digits[(n % 10) + 1]>>

\* the calendar month before a period YYYY-MM
CalendarPrevious(period) ==
    LET year == DecimalValue(SubSeq(period, 1, 4))
        month == DecimalValue(SubSeq(period, 6, 7))
    IN  IF month > 1 THEN FourDigits(year) \o <<"-">> \o TwoDigits(month - 1)
        ELSE FourDigits(year - 1) \o <<"-", "1", "2">>

\* the period of the run, read off the start date of the file name
CurrentPeriod == fileNameParts.year \o <<"-">> \o TwoDigits(fileNameParts.mon)

\* the stored snapshots of this organization for a period
StoredSnapshots(st, period) ==
    {st.summaries[i] : i \in {j \in 1..Len(st.summaries) :
        /\ st.summaries[j].org = overviewData.WorkspaceName
        /\ st.summaries[j].period = period}}

\* the snapshots of the month before the run's
PreviousSnapshots ==
    IF DocumentedForm(fileNameParts)
    THEN StoredSnapshots(store, CalendarPrevious(CurrentPeriod))
    ELSE {}

Difference(a, b) == Reduced([num |-> a.num * b.den - b.num * a.den, den |-> a.den * b.den])

\* the change from before to now in percent of before, 0 when before is not positive
PercentageChange(now, before) ==
    IF before > 0 THEN Reduced([num |-> (now - before) * 100, den |-> before])
    ELSE ZeroFloat

\* C13: the trend of a run on period YYYY-MM is taken against the snapshot of
\* the same organization one calendar month earlier (2024-12 for 2025-01): the
\* reported change of the followers is the difference to that snapshot when it is
\* stored, and zero when it is not.
C13_PreviousCalendarMonth ==
    (Assembled /\ DocumentedForm(fileNameParts)) =>
        /\ \A s \in PreviousSnapshots :
                reportData.FollowersChange = reportData.Followers - s.Followers
        /\ PreviousSnapshots = {} => reportData.FollowersChange = 0

\* C14: when no snapshot of the previous month of the organization is stored,
\* the four deltas of the assembled report are zero, and the report is assembled.
C14_ZeroDeltasWithoutPrevious ==
    /\ (Assembled /\ PreviousSnapshots = {}) =>
            /\ reportData.FollowersChange = 0
            /\ FloatEq(reportData.ReachChange, ZeroFloat)
            /\ FloatEq(reportData.EngagementsChange, ZeroFloat)
            /\ FloatEq(reportData.EngagementRateChange, ZeroFloat)
    /\ pc \in {"fatal", "panic"} =>
            exit \in {"Error generating report filename", "Error storing data"}

C14_Witness ==
    /\ pc = "done"
    /\ fileNameParts.mon = 1
    /\ PreviousSnapshots = {}
    /\ StoredSnapshots(earlier, <<"2","0","2","4","-","0","1">>) # {}
    /\ StoredSnapshots(store, CurrentPeriod) # {}
    /\ reportFile.Summary[1] = 1200
    /\ reportFile.Summary[2] = 0

\* C15: when a snapshot of the previous month is stored, the followers delta is
\* the difference of the two counts, the reach and the engagements deltas are the
\* change in percent of the previous value when that is positive and 0 otherwise,
\* and the engagement rate delta is the difference of the two rates.
C15_DeltasAgainstPrevious ==
    Assembled =>
        \A s \in PreviousSnapshots :
            /\ reportData.FollowersChange = reportData.Followers - s.Followers
            /\ FloatEq(reportData.ReachChange, PercentageChange(reportData.Reach, s.Reach))
            /\ FloatEq(reportData.EngagementsChange,
                       PercentageChange(reportData.Engagements, s.Engagements))
            /\ FloatEq(reportData.EngagementRateChange,
                       Difference(reportData.EngagementRate, s.EngagementRate))

\* the rows of a kind stored for the run's key, in the table's order
CollectionOf(st, kind) ==
    LET Mine(r) == /\ r.org = overviewData.WorkspaceName
                   /\ r.period = CurrentPeriod
                   /\ r.kind = kind
        rows == SelectSeq(st.rows, Mine)
    IN  [i \in 1..Len(rows) |-> rows[i].rec]

\* the records the run read, by kind
Ingested(kind) ==
    CASE kind = "countries" -> IngestedCountries
      [] kind = "posts" -> IngestedPosts
      [] OTHER -> IngestedHashtags

\* the three files are read and the name of the overview file gives a period
Stored ==
    \/ /\ PeriodAvailable
       /\ \/ pc \in {"putSummary", "replaceDelete", "replaceInsert", "replaceCommit",
                      "prepareReportData"}
          \/ Assembled
    \/ pc = "fatal" /\ exit = "Error storing data"

StorageDone == PeriodAvailable /\ (pc = "prepareReportData" \/ Assembled)

\* an earlier run stored the same overview input under the same key
SameInputStored ==
    /\ Cardinality(StoredSnapshots(earlier, CurrentPeriod)) = 1
    /\ \A s \in StoredSnapshots(earlier, CurrentPeriod) :
           /\ s.Followers = overviewData.Followers
           /\ s.Reach = overviewData.Reach
           /\ s.ReachRate = overviewData.ReachRate
           /\ s.Engagements = overviewData.Engagements
           /\ s.EngagementRate = overviewData.EngagementRate
    /\ CollectionOf(earlier, "countries") = IngestedCountries

\* C16: a second ingestion of the same overview input for the same organization
\* and period leaves the summary table as the first left it, with one row for the
\* key, and the key's country rows as they were, no more of them.
C16_ReingestionIdempotent ==
    (StorageDone /\ SameInputStored) =>
        /\ store.summaries = earlier.summaries
        /\ Cardinality(SummaryRows(store, overviewData.WorkspaceName, CurrentPeriod)) = 1
        /\ CollectionOf(store, "countries") = CollectionOf(earlier, "countries")

C16_Witness ==
    /\ pc = "done"
    /\ SameInputStored
    /\ Len(earlier.summaries) = 2
    /\ Len(CollectionOf(store, "countries")) = 2
    /\ store = earlier

\* C17: the rows stored for (organization, period, kind) are at every moment
\* either the rows that were there before the run or the rows of the run, whole;
\* after a failed statement of a replacement they are the rows from before, and
\* the rows of every other key are never touched.
C17_ReplaceIsAtomic ==
    Stored =>
        /\ \A k \in 1..Len(Kinds) :
               /\ CollectionOf(store, Kinds[k]) \in
                      {CollectionOf(earlier, Kinds[k]), Ingested(Kinds[k])}
               /\ (pc = "fatal" /\ fault.kind = k) =>
                      CollectionOf(store, Kinds[k]) = CollectionOf(earlier, Kinds[k])
        /\ LET Foreign(r) == ~(r.org = overviewData.WorkspaceName /\ r.period = CurrentPeriod)
           IN  SelectSeq(store.rows, Foreign) = SelectSeq(earlier.rows, Foreign)

C17_Witness ==
    /\ pc = "fatal"
    /\ exit = "Error storing data"
    /\ fault = [step |-> "insert", kind |-> 2]
    /\ CollectionOf(store, "countries") = IngestedCountries
    /\ CollectionOf(earlier, "countries") # IngestedCountries
    /\ CollectionOf(earlier, "posts") # <<>>
    /\ CollectionOf(earlier, "posts") # IngestedPosts
    /\ CollectionOf(store, "posts") = CollectionOf(earlier, "posts")

(***************************************************************************)
(* Claims about the sections of the overview file.                         *)
(***************************************************************************)
\* readOverviewFile has just returned or ended the run
OverviewDone ==
    \/ pc = "readPostInsightsFile"
    \/ pc = "fatal" /\ exit = "Error reading overview file"
    \/ pc = "panic" /\ exit = "readOverviewFile"

OverviewFailed == pc = "fatal" /\ exit = "Error reading overview file"

\* a row whose trimmed first field starts with the label
StartsSection(item, label) ==
    /\ item.err = "nil"
    /\ Len(item.rec) > 0
    /\ LET field == TrimSpace(item.rec[1])
       IN  Len(field) >= Len(label) /\ SubSeq(field, 1, Len(label)) = label

\* the lines at which the search for a section ends: its sentinel, or an error
SearchEnds(label, from) ==
    {i \in from..Len(overviewDoc) :
        overviewDoc[i].err # "nil" \/ StartsSection(overviewDoc[i], label)}

\* the "Workspace Name" row is read before any error and a row follows it
HeaderAndRow ==
    LET ends == SearchEnds(WorkspaceNameLabel, 1)
    IN  /\ ends # {}
        /\ overviewDoc[Min(ends)].err = "nil"
        /\ Min(ends) < Len(overviewDoc)
        /\ overviewDoc[Min(ends) + 1].err = "nil"

\* C21, as the specification has it: readOverviewFile returns overview data
\* without error for every document that holds a row whose trimmed first field
\* starts with "Workspace Name".
C21_FailsOnlyWithoutSentinel ==
    (OverviewDone /\ \E i \in 1..Len(overviewDoc) :
                        StartsSection(overviewDoc[i], WorkspaceNameLabel))
    => ~OverviewFailed

\* C21, amended: readOverviewFile returns an error exactly when the reader
\* reports an error or the end of input before a "Workspace Name" row is read or
\* for the row right after it; otherwise it returns the data of that row, and with
\* no "Top Countries" row read after it the country list is empty.
C21_FailsWithoutSentinelOrRow ==
    OverviewDone =>
        /\ OverviewFailed <=> ~HeaderAndRow
        /\ HeaderAndRow =>
              LET row == Min(SearchEnds(WorkspaceNameLabel, 1)) + 1
                  ends == SearchEnds(TopCountriesLabel, row + 1)
              IN  /\ pc # "panic"
                  /\ overviewData.WorkspaceName = TrimSpace(overviewDoc[row].rec[1])
                  /\ (ends = {} \/ overviewDoc[Min(ends)].err # "nil") =>
                        overviewData.TopCountries = <<>>

C21_Witness ==
    /\ pc = "readPostInsightsFile"
    /\ Len(overviewDoc) = 4
    /\ overviewDoc[1].err = "nil"
    /\ overviewDoc[1].rec[1] = <<"w","o","r","k","s","p","a","c","e"," ","n","a","m","e">>
    /\ StartsSection(overviewDoc[2], WorkspaceNameLabel)
    /\ overviewDoc[3] = Record(OverviewDataRow)
    /\ overviewDoc[4] = Record(OverviewDataRow)
    /\ overviewData.Followers = 1200
    /\ overviewData.TopCountries = <<>>

\* a sign or none, then digits and nothing else
IsInteger(text) ==
    LET digits == IF text # <<>> /\ text[1] \in {"+", "-"} THEN Tail(text) ELSE text
    IN  digits # <<>> /\ \A i \in 1..Len(digits) : IsDigit(digits[i])

IntegerValue(text) ==
    IF text[1] = "-" THEN 0 - DecimalValue(Tail(text))
    ELSE IF text[1] = "+" THEN DecimalValue(Tail(text))
    ELSE DecimalValue(text)

\* the line ends the list of countries
EndsCountries(item) ==
    \/ item.err # "nil"
    \/ Len(item.rec) < 2
    \/ TrimSpace(item.rec[1]) = <<>>
    \/ StartsSection(item, TopLabel)
    \/ ~IsInteger(TrimSpace(item.rec[2]))

\* the line after the "Top Countries" row, when readOverviewFile gets there
CountriesFrom ==
    LET row == Min(SearchEnds(WorkspaceNameLabel, 1)) + 1
    IN  Min(SearchEnds(TopCountriesLabel, row + 1)) + 1

CountriesReached ==
    /\ HeaderAndRow
    /\ LET ends == SearchEnds(TopCountriesLabel,
                              Min(SearchEnds(WorkspaceNameLabel, 1)) + 2)
       IN  ends # {} /\ overviewDoc[Min(ends)].err = "nil"

\* C22: after the "Top Countries" row readOverviewFile appends one country per
\* row, in input order, up to the first line that is an error or the end of
\* input, has fewer than two fields, an empty trimmed name, a name that starts
\* with "Top", or a user count that is empty or no integer; it returns no error,
\* and every country has the trimmed, non-empty name and the integer user count
\* of its row.
C22_CountriesUntilFirstStop ==
    (OverviewDone /\ CountriesReached) =>
        /\ ~OverviewFailed
        /\ pc # "panic"
        /\ LET from == CountriesFrom
               stops == {i \in from..Len(overviewDoc) : EndsCountries(overviewDoc[i])}
               end == IF stops = {} THEN Len(overviewDoc) + 1 ELSE Min(stops)
               read == IngestedCountries
           IN  /\ Len(read) = end - from
               /\ Len(overviewData.TopCountries) = Len(read)
               /\ \A k \in 1..Len(read) :
                     /\ read[k].Country = TrimSpace(overviewDoc[from + k - 1].rec[1])
                     /\ read[k].Country # <<>>
                     /\ read[k].Users = IntegerValue(TrimSpace(overviewDoc[from + k - 1].rec[2]))
               /\ pc = "readPostInsightsFile" =>
                     \A k \in 1..Len(read) :
                        /\ overviewData.TopCountries[k].Country = read[k].Country
                        /\ overviewData.TopCountries[k].Users = read[k].Users

C22_Witness ==
    /\ pc = "readPostInsightsFile"
    /\ CountriesReached
    /\ Len(overviewDoc) = CountriesFrom + 2
    /\ overviewDoc[CountriesFrom + 1].err = "nil"
    /\ overviewDoc[CountriesFrom + 1].rec = <<<<"C","d">>, <<"1",".","5">>>>
    /\ ~EndsCountries(overviewDoc[CountriesFrom + 2])
    /\ Len(overviewData.TopCountries) = 1
    /\ overviewData.TopCountries[1].Country = <<"C","b">>
    /\ overviewData.TopCountries[1].Users = 12

(***************************************************************************)
(* Claims about the rows of the three files: their width, their numeric    *)
(* columns, the end of the row loops.                                      *)
(***************************************************************************)
\* the rows of a document: what Read returned without an error
RowsOf(doc) == SelectSeq(doc, LAMBDA item : item.err = "nil")

HashtagsJustRead ==
    \/ pc = "putSummary"
    \/ pc = "panic" /\ exit = "readHashtagAnalysisFile"

IndexFault ==
    /\ pc = "panic"
    /\ exit \in {"readOverviewFile", "readPostInsightsFile", "readHashtagAnalysisFile"}

\* C23: no reader reads a field past the end of a row: whatever the width of
\* the rows, no reader ends with an index out of range, and the post and hashtag
\* readers return at most one record per row.
C23_NoReadPastTheRow ==
    /\ ~IndexFault
    /\ PostsJustRead => Len(postsData) <= Len(RowsOf(DataRows(postsDoc)))
    /\ HashtagsJustRead => Len(hashtagData) <= Len(RowsOf(DataRows(hashtagDoc)))

\* the number an integer column stands for, 0 when it is no number
IntOf(text) == (CHOOSE c \in IntCases : c.text = text).value

RateOf(text) == (CHOOSE c \in RateCases : c.text = text).value

IsIntText(text) == \E c \in IntCases : c.text = text

IsRateText(text) == \E c \in RateCases : c.text = text

\* the value of column k of a row as an integer, 0 for a row without it
IntColumn(rec, k) == IF k <= Len(rec) THEN IntOf(rec[k]) ELSE 0

RateColumn(rec, k) == IF k <= Len(rec) THEN RateOf(rec[k]) ELSE ZeroFloat

\* every numeric column the row has is one of the texts above
KnownColumns(rec, ints, rates) ==
    /\ \A k \in ints : k <= Len(rec) => IsIntText(rec[k])
    /\ \A k \in rates : k <= Len(rec) => IsRateText(rec[k])

OverviewFieldsRead ==
    LET rec == overviewDoc[Min(SearchEnds(WorkspaceNameLabel, 1)) + 1].rec
    IN  KnownColumns(rec, {3, 4, 7}, {5, 8}) =>
            /\ overviewData.WorkspaceName = TrimSpace(rec[1])
            /\ overviewData.Followers = IntColumn(rec, 3)
            /\ overviewData.Reach = IntColumn(rec, 4)
            /\ FloatEq(overviewData.ReachRate, RateColumn(rec, 5))
            /\ overviewData.Engagements = IntColumn(rec, 7)
            /\ FloatEq(overviewData.EngagementRate, RateColumn(rec, 8))

\* the post rows of the documented width with the type Status
StatusPostRows == SelectSeq(RowsOf(DataRows(postsDoc)),
                            LAMBDA item : Len(item.rec) >= 8 /\ TrimSpace(item.rec[6]) = StatusLabel)

PostFieldsRead ==
    LET rows == StatusPostRows
    IN  (\A i \in 1..Len(rows) : KnownColumns(rows[i].rec, {9}, {})) =>
            /\ pc # "panic"
            /\ Len(postsData) = Len(rows)
            /\ \A i \in 1..Len(rows) :
                  /\ postsData[i].PostText = TrimSpace(rows[i].rec[5])
                  /\ postsData[i].Reactions = IntColumn(rows[i].rec, 9)

\* the hashtag rows of the documented width
WideHashtagRows == SelectSeq(RowsOf(DataRows(hashtagDoc)), LAMBDA item : Len(item.rec) >= 6)

HashtagFieldsRead ==
    LET rows == WideHashtagRows
    IN  (\A i \in 1..Len(rows) : KnownColumns(rows[i].rec, 6..10, {5})) =>
            /\ pc # "panic"
            /\ Len(hashtagData) = Len(rows)
            /\ \A i \in 1..Len(rows) :
                  /\ hashtagData[i].Hashtag = TrimSpace(rows[i].rec[1])
                  /\ FloatEq(hashtagData[i].Score, RateColumn(rows[i].rec, 5))
                  /\ hashtagData[i].Reach = IntColumn(rows[i].rec, 6)
                  /\ hashtagData[i].Reactions = IntColumn(rows[i].rec, 7)
                  /\ hashtagData[i].Comments = IntColumn(rows[i].rec, 8)
                  /\ hashtagData[i].Shares = IntColumn(rows[i].rec, 9)
                  /\ hashtagData[i].VideoViews = IntColumn(rows[i].rec, 10)

\* texts that are no number
NoNumber == {<<>>, <<"-">>, <<"x">>, <<"%">>, <<"n","/","a">>}

\* a row of the rows has a numeric column that is no number
SomeUnparsed(rows, columns) ==
    \E i \in 1..Len(rows) : \E k \in columns : k <= Len(rows[i].rec) /\ rows[i].rec[k] \in NoNumber

\* C24: a numeric column that is no number never ends the run: in a file with
\* such a column every row of the documented width gives its record, in input
\* order, the column that is no number is 0 in it, every other column has the
\* number written in the row, and the rows after it are read as well; a rate
\* with a percent sign has the number before the sign.
C24_UnparsedFieldIsZero ==
    /\ (pc = "readPostInsightsFile" /\ HeaderAndRow) => OverviewFieldsRead
    /\ (PostsJustRead /\ SomeUnparsed(StatusPostRows, {9})) => PostFieldsRead
    /\ (HashtagsJustRead /\ SomeUnparsed(WideHashtagRows, 5..10)) => HashtagFieldsRead

\* C25: the row loops of the post and hashtag readers end on every input: the
\* process is never inside a row loop in which every further Read returns the
\* same failure and is skipped.
C25_RowLoopsTerminate == pc # "reading"

====
